---- MODULE Spec2Model ----
(***************************************************************************)
(* Model of the K6 MCP server: the six tool handlers (k6_generate, k6_run, *)
(* k6_list, k6_status, k6_output, k6_analyze), the App Server availability *)
(* probe they share, and the stage planner of the basic script generator.  *)
(*                                                                         *)
(* Tool invocations are asynchronous functions on one event loop: each     *)
(* action below is one synchronous segment of a handler, from one await to *)
(* the next.  The outcome of every awaited operation (HTTP response, file  *)
(* system result) is chosen by the environment when the await completes.   *)
(***************************************************************************)
EXTENDS Integers, Sequences, FiniteSets, TLC

VARIABLES
    pc,       \* pc[i]: the await at which invocation i is suspended
    args,     \* args[i]: the tool invoked and its arguments
    local,    \* local[i]: the handler's local variables
    resp,     \* resp[i]: the value the handler returned
    log,      \* log[i]: the HTTP requests sent, the responses received and
              \* the file system calls settled, in order
    clock,    \* the system clock, in milliseconds
    files,    \* the test-scripts directory: file name -> content
    pin,      \* the input of the pure function evaluated on its own: the
              \* stage planner's (scenarioType, vus, duration), or the
              \* fallback classifier's metrics
    pout      \* the output of that function

vars == <<pc, args, local, resp, log, clock, files, pin, pout>>

----------------------------------------------------------------------------
(* Bounds of the model *)

\* clock readings range over 0..MaxClock
MaxClock == 2
\* base concurrency values given to the planner range over -1..MaxVus
MaxVus == 6

\* the concurrent tool invocations
Invocations == {"i1", "i2"}

----------------------------------------------------------------------------
(* JavaScript values *)

\* an optional value: <<>> is undefined, <<x>> is x
Undefined == <<>>
Some(x) == <<x>>
IsDefined(o) == o # Undefined

\* a || b for an optional number a: 0 and undefined are falsy
OrNumber(a, b) == IF IsDefined(a) /\ a[1] # 0 THEN a[1] ELSE b

\* a || b for an optional string a: "" and undefined are falsy
OrString(a, b) == IF IsDefined(a) /\ a[1] # "" THEN a[1] ELSE b

\* truthiness of an optional string
Truthy(o) == IsDefined(o) /\ o[1] # ""

\* Math.floor(a / 2) for an integer a (\div rounds toward minus infinity)
FloorHalf(a) == a \div 2

\* JSON.stringify of an object: keys whose value is undefined are dropped
JSONstringify(obj) == [k \in {x \in DOMAIN obj : IsDefined(obj[x])} |-> obj[k][1]]

\* new Date(ms).toISOString(): the instant in ISO-8601 text, one text per ms
toISOString(ms) == <<"ISO-8601", ms>>

\* the millisecond instant an ISO-8601 text denotes
InstantOf(iso) == iso[2]

\* not-a-number, the result of parseFloat on a text that is no number
NaN == <<0, 0>>

\* an optional number that is a number: neither undefined nor NaN
IsNumber(o) == o # Undefined /\ o # NaN

\* a < b and a > b for an optional number a: false on undefined and on NaN
LessThan(a, b) == IsNumber(a) /\ a[1] < b
GreaterThan(a, b) == IsNumber(a) /\ a[1] > b

----------------------------------------------------------------------------
(* JavaScript strings: a text is a sequence of chunks, each chunk the        *)
(* characters from .. to - 1 of the string named src (a literal of a         *)
(* template, or the value interpolated into one of its slots)                *)

Chunk(src, from, to) == [src |-> src, from |-> from, to |-> to]

\* a literal of n characters
Lit(name, n) == Chunk(name, 0, n)

\* a concatenation: empty strings leave no trace in it
Text(chunks) == SelectSeq(chunks, LAMBDA c : c.to > c.from)

\* `${n}` for an integer n
Digits(n) == Len(ToString(n))

\* `${s}` for an optional string s
StringLength(s) == IF IsDefined(s) THEN Len(s[1]) ELSE Len("undefined")

\* text.length
RECURSIVE Length(_)
Length(text) ==
    IF text = <<>> THEN 0
    ELSE (text[1].to - text[1].from) + Length(Tail(text))

\* text.substring(0, n)
RECURSIVE Substring(_, _)
Substring(text, n) ==
    IF text = <<>> \/ n <= 0 THEN <<>>
    ELSE IF text[1].to - text[1].from <= n
         THEN <<text[1]>>
              \o Substring(Tail(text), n - (text[1].to - text[1].from))
         ELSE <<Chunk(text[1].src, text[1].from, text[1].from + n)>>

\* text.substring(n)
RECURSIVE Skip(_, _)
Skip(text, n) ==
    IF text = <<>> \/ n <= 0 THEN text
    ELSE IF text[1].to - text[1].from <= n
         THEN Skip(Tail(text), n - (text[1].to - text[1].from))
         ELSE <<Chunk(text[1].src, text[1].from + n, text[1].to)>>
              \o Tail(text)

\* text.slice(-n) for n > 0
SliceLast(text, n) == Skip(text, Length(text) - n)

----------------------------------------------------------------------------
(* Stage planner: generateStagesConfig of the basic generator *)

ScenarioInputs == {"ramping", "spike", "stress", "soak", "bogus"}
DurationInputs == {"2m", "10s", "1h"}

Stage(d, t) == [duration |-> d, target |-> t]

\* a planner whose default (ramping) plan lacks the final ramp-down stage
generateStagesConfigNoRampDown(scenarioType, vus, duration) ==
    CASE scenarioType = "spike" ->
           << Stage("30s", vus), Stage("1m", vus), Stage("10s", vus * 3),
              Stage("1m", vus * 3), Stage("10s", vus), Stage("1m", vus),
              Stage("30s", 0) >>
      [] scenarioType = "stress" ->
           << Stage("1m", vus), Stage("2m", vus), Stage("1m", vus * 2),
              Stage("2m", vus * 2), Stage("1m", vus * 3), Stage("2m", vus * 3),
              Stage("1m", 0) >>
      [] scenarioType = "soak" ->
           << Stage("2m", vus), Stage(duration, vus), Stage("2m", 0) >>
      [] OTHER ->
           << Stage("30s", FloorHalf(vus)), Stage("30s", vus),
              Stage(duration, vus) >>

\* a planner whose spike only doubles the base concurrency
generateStagesConfigSpikeDouble(scenarioType, vus, duration) ==
    CASE scenarioType = "spike" ->
           << Stage("30s", vus), Stage("1m", vus), Stage("10s", vus * 2),
              Stage("1m", vus * 2), Stage("10s", vus), Stage("1m", vus),
              Stage("30s", 0) >>
      [] scenarioType = "stress" ->
           << Stage("1m", vus), Stage("2m", vus), Stage("1m", vus * 2),
              Stage("2m", vus * 2), Stage("1m", vus * 3), Stage("2m", vus * 3),
              Stage("1m", 0) >>
      [] scenarioType = "soak" ->
           << Stage("2m", vus), Stage(duration, vus), Stage("2m", 0) >>
      [] OTHER ->
           << Stage("30s", FloorHalf(vus)), Stage("30s", vus),
              Stage(duration, vus), Stage("30s", 0) >>

\* a planner whose stress plan falls back to the base before its last level
generateStagesConfigStressDip(scenarioType, vus, duration) ==
    CASE scenarioType = "spike" ->
           << Stage("30s", vus), Stage("1m", vus), Stage("10s", vus * 3),
              Stage("1m", vus * 3), Stage("10s", vus), Stage("1m", vus),
              Stage("30s", 0) >>
      [] scenarioType = "stress" ->
           << Stage("1m", vus), Stage("2m", vus), Stage("1m", vus * 2),
              Stage("2m", vus * 2), Stage("1m", vus), Stage("2m", vus * 3),
              Stage("1m", 0) >>
      [] scenarioType = "soak" ->
           << Stage("2m", vus), Stage(duration, vus), Stage("2m", 0) >>
      [] OTHER ->
           << Stage("30s", FloorHalf(vus)), Stage("30s", vus),
              Stage(duration, vus), Stage("30s", 0) >>

\* a planner whose spike holds its peak for the duration given
generateStagesConfigSpikeHold(scenarioType, vus, duration) ==
    CASE scenarioType = "spike" ->
           << Stage("30s", vus), Stage("1m", vus), Stage("10s", vus * 3),
              Stage(duration, vus * 3), Stage("10s", vus), Stage("1m", vus),
              Stage("30s", 0) >>
      [] scenarioType = "stress" ->
           << Stage("1m", vus), Stage("2m", vus), Stage("1m", vus * 2),
              Stage("2m", vus * 2), Stage("1m", vus * 3), Stage("2m", vus * 3),
              Stage("1m", 0) >>
      [] scenarioType = "soak" ->
           << Stage("2m", vus), Stage(duration, vus), Stage("2m", 0) >>
      [] OTHER ->
           << Stage("30s", FloorHalf(vus)), Stage("30s", vus),
              Stage(duration, vus), Stage("30s", 0) >>

\* a planner that plans nothing for a scenario type it does not know
generateStagesConfigStrict(scenarioType, vus, duration) ==
    CASE scenarioType = "spike" ->
           << Stage("30s", vus), Stage("1m", vus), Stage("10s", vus * 3),
              Stage("1m", vus * 3), Stage("10s", vus), Stage("1m", vus),
              Stage("30s", 0) >>
      [] scenarioType = "stress" ->
           << Stage("1m", vus), Stage("2m", vus), Stage("1m", vus * 2),
              Stage("2m", vus * 2), Stage("1m", vus * 3), Stage("2m", vus * 3),
              Stage("1m", 0) >>
      [] scenarioType = "soak" ->
           << Stage("2m", vus), Stage(duration, vus), Stage("2m", 0) >>
      [] scenarioType = "ramping" ->
           << Stage("30s", FloorHalf(vus)), Stage("30s", vus),
              Stage(duration, vus), Stage("30s", 0) >>
      [] OTHER -> << >>

generateStagesConfig(scenarioType, vus, duration) ==
    CASE scenarioType = "spike" ->
           << Stage("30s", vus), Stage("1m", vus), Stage("10s", vus * 3),
              Stage("1m", vus * 3), Stage("10s", vus), Stage("1m", vus),
              Stage("30s", 0) >>
      [] scenarioType = "stress" ->
           << Stage("1m", vus), Stage("2m", vus), Stage("1m", vus * 2),
              Stage("2m", vus * 2), Stage("1m", vus * 3), Stage("2m", vus * 3),
              Stage("1m", 0) >>
      [] scenarioType = "soak" ->
           << Stage("2m", vus), Stage(duration, vus), Stage("2m", 0) >>
      [] OTHER ->
           << Stage("30s", FloorHalf(vus)), Stage("30s", vus),
              Stage(duration, vus), Stage("30s", 0) >>

----------------------------------------------------------------------------
(* Tool arguments *)

Sources == {"basic", "api", "har", "openapi"}
\* a source kind outside the enum, as handleGenerate's default case sees it
UnknownSource == "postman"
TestIds == {"t1"}
ResultFiles == {"report.txt"}
Scripts == {"load.js"}

NoOptions == [vus |-> Undefined, duration |-> Undefined,
              thinkTime |-> Undefined, scenarios |-> Undefined]

NoArgs == [tool |-> "none", source |-> "", input |-> Undefined,
           options |-> NoOptions, script |-> "", testId |-> Undefined,
           resultFile |-> Undefined]

\* the option values tried by concurrent k6_generate calls
OptionInputs == {NoOptions, [NoOptions EXCEPT !.vus = Some(1)]}

GenerateArgs ==
    {[NoArgs EXCEPT !.tool = "k6_generate", !.source = s, !.options = o] :
        s \in Sources \cup {UnknownSource}, o \in OptionInputs}

\* the option values and inputs tried by a k6_generate call on its own:
\* each field left out, given a falsy value (0, "", an empty list) or given
\* a proper value
WideOptionInputs ==
    [vus : {Undefined, Some(0), Some(1), Some(20)},
     duration : {Undefined, Some(""), Some("30s")},
     thinkTime : {Undefined, Some(0), Some(2)},
     scenarios : {Undefined, Some(<<>>), Some(<<"spike">>), Some(<<"soak">>),
                  Some(<<"bogus">>)}]

InputValues == {Undefined, Some(""), Some("http://sut:8080")}

WideGenerateArgs ==
    {[NoArgs EXCEPT !.tool = "k6_generate", !.source = s, !.input = n,
                    !.options = o] :
        s \in Sources \cup {UnknownSource}, n \in InputValues,
        o \in WideOptionInputs}

RunArgs == {[NoArgs EXCEPT !.tool = "k6_run", !.script = s] : s \in Scripts}

ListArgs == {[NoArgs EXCEPT !.tool = "k6_list"]}

StatusArgs ==
    {[NoArgs EXCEPT !.tool = "k6_status", !.testId = t] :
        t \in {Undefined} \cup {Some(x) : x \in TestIds}}

OutputArgs ==
    {[NoArgs EXCEPT !.tool = "k6_output", !.testId = Some(t)] : t \in TestIds}

AnalyzeArgs ==
    {[NoArgs EXCEPT !.tool = "k6_analyze", !.testId = t, !.resultFile = f] :
        t \in {Undefined} \cup {Some(x) : x \in TestIds},
        f \in {Undefined} \cup {Some(x) : x \in ResultFiles}}

ForwarderArgs == RunArgs \cup ListArgs \cup StatusArgs \cup OutputArgs
                 \cup AnalyzeArgs

Forwarders == {"k6_run", "k6_list", "k6_status", "k6_output", "k6_analyze"}

----------------------------------------------------------------------------
(* HTTP: what axios resolves or rejects with *)

\* status 0: no response at all (connection refused, timeout).  body is
\* "null" (JSON null), "text" (an empty or non-JSON body, kept as a string)
\* or "object"; error and health are the body's `error` and `status` fields.
Outcome(status, body, error, health) ==
    [status |-> status, body |-> body, error |-> error, health |-> health]

NoResponse == Outcome(0, "none", Undefined, Undefined)

HealthOutcomes ==
    { NoResponse,
      Outcome(200, "object", Undefined, Some("healthy")),
      Outcome(200, "object", Undefined, Some("degraded")),
      Outcome(200, "object", Undefined, Undefined),
      Outcome(200, "null", Undefined, Undefined),
      Outcome(200, "text", Undefined, Undefined),
      Outcome(500, "object", Undefined, Some("healthy")) }

CallOutcomes ==
    { NoResponse,
      Outcome(200, "object", Undefined, Undefined),
      Outcome(200, "null", Undefined, Undefined),
      Outcome(200, "text", Undefined, Undefined),
      Outcome(202, "object", Undefined, Undefined),
      Outcome(404, "object", Some(<<"Test not found">>), Undefined),
      Outcome(404, "text", Undefined, Undefined),
      Outcome(500, "object", Some(<<"Internal error">>), Undefined) }

\* axios' default validateStatus
Is2xx(status) == status >= 200 /\ status < 300

\* A thrown value: message is its `message` property (a text: the parts of
\* the template literal that built it), status is error.response?.status
\* (0 when there is no response), dataError is error.response?.data?.error.
Thrown(message, status, dataError) ==
    [message |-> message, status |-> status, dataError |-> dataError]

Error(text) == Thrown(Some(text), 0, Undefined)

TypeError == Error(<<"Cannot read properties of null or undefined">>)

AxiosError(o) ==
    IF o.status = 0
    THEN Thrown(Some(<<"connect ECONNREFUSED">>), 0, Undefined)
    ELSE Thrown(Some(<<"Request failed with status code ", ToString(o.status)>>),
                o.status, o.error)

\* the parts of message texts that contain the substring 'App Server'
NotAvailableText ==
    "K6 App Server is not available. Please start it with: cd k6-app-server && npm start"

\* text.includes('App Server')
IncludesAppServer(text) ==
    \E k \in 1 .. Len(text) : text[k] = NotAvailableText

StartHint == <<"Start the K6 App Server with: cd k6-app-server && npm start">>

\* error.response?.data?.error || error.message
ErrorMessage(e) == IF IsDefined(e.dataError) THEN e.dataError ELSE e.message

----------------------------------------------------------------------------
(* What a handler's promise settles to *)

Pending == [state |-> "pending"]
Fulfilled(v) == [state |-> "fulfilled", value |-> v]
Rejected(e) == [state |-> "rejected", reason |-> e]

\* { content: [ { type: 'text', text } ] }
ToolResult(format, doc) ==
    [content |-> << [type |-> "text", format |-> format, text |-> doc] >>]

JsonResult(obj) == ToolResult("json", JSONstringify(obj))

\* The hint of the catch blocks of run, list, status and analyze.  Reading
\* error.message.includes on a thrown value without a string message throws
\* inside the catch block, and the handler's promise rejects.
AppServerHint(e) ==
    IF IncludesAppServer(e.message[1]) THEN Some(StartHint) ELSE Undefined

\* a gate error thrown as a bare string: it has no message property
NotAvailableString == Thrown(Undefined, 0, Undefined)

\* new Error('K6 App Server is not available. ...') of the gate
NotAvailableError == Error(<<NotAvailableText>>)

----------------------------------------------------------------------------
(* Service availability gate *)

\* what an awaited call settles to: a value, or a thrown error
Returned(v) == [threw |-> FALSE, value |-> v]
Threw(e) == [threw |-> TRUE, error |-> e]

\* the try block of checkAppServer once GET /health settled with o:
\* axios rejects without a 2xx answer; response.data.status throws a
\* TypeError on a null body and is undefined on a string body
checkAppServerTry(o) ==
    IF ~Is2xx(o.status) THEN Threw(AxiosError(o))
    ELSE IF o.body = "null" THEN Threw(TypeError)
    ELSE Returned(o.health = Some("healthy"))

\* a gate without its catch block
checkAppServerNoCatch(o) == checkAppServerTry(o)

\* checkAppServer: the catch block turns every thrown error into false
checkAppServer(o) ==
    IF checkAppServerTry(o).threw THEN Returned(FALSE) ELSE checkAppServerTry(o)

----------------------------------------------------------------------------
(* Script templates: the interpolated values of each template literal *)

generateBasicScript(o) ==
    [template |-> "basic",
     generatedAt |-> o.timestamp,
     scenario |-> o.scenarioType,
     vus |-> o.vus, duration |-> o.duration, thinkTime |-> o.thinkTime,
     stages |-> generateStagesConfig(o.scenarioType, o.vus, o.duration),
     baseUrl |-> o.baseUrl,
     summary |-> [scenario |-> o.scenarioType, vus |-> o.vus,
                  duration |-> o.duration]]

DefaultEndpoints == <<"/api/products", "/api/users", "/api/orders">>

generateApiScript(o) ==
    [template |-> "api",
     generatedAt |-> o.timestamp,
     baseUrl |-> o.baseUrl,
     vus |-> o.vus, duration |-> o.duration, thinkTime |-> o.thinkTime,
     endpoints |-> DefaultEndpoints]

generateHarScript(o) ==
    [template |-> "har",
     generatedAt |-> o.timestamp,
     source |-> o.harFile,
     note |-> "HAR conversion not yet implemented",
     vus |-> o.vus, duration |-> o.duration,
     sleep |-> 1]

generateOpenApiScript(o) ==
    [template |-> "openapi",
     generatedAt |-> o.timestamp,
     source |-> o.specFile,
     note |-> "OpenAPI conversion not yet implemented",
     vus |-> o.vus, duration |-> o.duration,
     sleep |-> 1]

DefaultBaseUrl == "http://localhost:3000"

\* options.scenarios && options.scenarios[0] || 'ramping'
ScenarioType(options) ==
    IF IsDefined(options.scenarios) /\ Len(options.scenarios[1]) > 0
       /\ options.scenarios[1][1] # ""
    THEN options.scenarios[1][1]
    ELSE "ramping"

\* one default duration for every source kind
DefaultDurationOfBasic(source) == "2m"

\* the duration each case of the switch falls back to
DefaultDuration(source) ==
    CASE source = "basic" -> "2m"
      [] source = "api" -> "1m"
      [] source \in {"har", "openapi"} -> "5m"

\* the switch of handleGenerate: the script rendered for a known source
RenderScript(a, timestamp) ==
    CASE a.source = "basic" ->
           generateBasicScript(
             [baseUrl |-> OrString(a.input, DefaultBaseUrl),
              vus |-> OrNumber(a.options.vus, 10),
              duration |-> OrString(a.options.duration,
                                    DefaultDuration(a.source)),
              thinkTime |-> OrNumber(a.options.thinkTime, 1),
              scenarioType |-> ScenarioType(a.options),
              timestamp |-> timestamp])
      [] a.source = "api" ->
           generateApiScript(
             [baseUrl |-> OrString(a.input, DefaultBaseUrl),
              vus |-> OrNumber(a.options.vus, 10),
              duration |-> OrString(a.options.duration,
                                    DefaultDuration(a.source)),
              thinkTime |-> OrNumber(a.options.thinkTime, 1),
              timestamp |-> timestamp])
      [] a.source = "har" ->
           generateHarScript(
             [harFile |-> a.input,
              vus |-> OrNumber(a.options.vus, 10),
              duration |-> OrString(a.options.duration,
                                    DefaultDuration(a.source)),
              timestamp |-> timestamp])
      [] a.source = "openapi" ->
           generateOpenApiScript(
             [specFile |-> a.input,
              vus |-> OrNumber(a.options.vus, 10),
              duration |-> OrString(a.options.duration,
                                    DefaultDuration(a.source)),
              timestamp |-> timestamp])

\* The text each template literal evaluates to: its literals, in order,
\* with the interpolated values between them.

\* the text generateStagesConfig returns
StagesText(scenarioType, vus, duration) ==
    CASE scenarioType = "spike" ->
           << Lit("spike:1", 33), Chunk("vus", 0, Digits(vus)),
              Lit("spike:2", 50), Chunk("vus", 0, Digits(vus)),
              Lit("spike:3", 64), Chunk("vus*3", 0, Digits(vus * 3)),
              Lit("spike:4", 55), Chunk("vus*3", 0, Digits(vus * 3)),
              Lit("spike:5", 54), Chunk("vus", 0, Digits(vus)),
              Lit("spike:6", 57), Chunk("vus", 0, Digits(vus)),
              Lit("spike:7", 90) >>
      [] scenarioType = "stress" ->
           << Lit("stress:1", 32), Chunk("vus", 0, Digits(vus)),
              Lit("stress:2", 61), Chunk("vus", 0, Digits(vus)),
              Lit("stress:3", 58), Chunk("vus*2", 0, Digits(vus * 2)),
              Lit("stress:4", 50), Chunk("vus*2", 0, Digits(vus * 2)),
              Lit("stress:5", 50), Chunk("vus*3", 0, Digits(vus * 3)),
              Lit("stress:6", 50), Chunk("vus*3", 0, Digits(vus * 3)),
              Lit("stress:7", 82) >>
      [] scenarioType = "soak" ->
           << Lit("soak:1", 32), Chunk("vus", 0, Digits(vus)),
              Lit("soak:2", 38), Chunk("duration", 0, Len(duration)),
              Lit("soak:3", 11), Chunk("vus", 0, Digits(vus)),
              Lit("soak:4", 100) >>
      [] OTHER ->
           << Lit("ramping:1", 33),
              Chunk("floor(vus/2)", 0, Digits(FloorHalf(vus))),
              Lit("ramping:2", 50), Chunk("vus", 0, Digits(vus)),
              Lit("ramping:3", 51), Chunk("duration", 0, Len(duration)),
              Lit("ramping:4", 11), Chunk("vus", 0, Digits(vus)),
              Lit("ramping:5", 99) >>

\* the text generateSummaryHandler returns
SummaryText(scenarioType, vus, duration) ==
    << Lit("summary:1", 162), Chunk("scenarioType", 0, Len(scenarioType)),
       Lit("summary:2", 31), Chunk("vus", 0, Digits(vus)),
       Lit("summary:3", 29), Chunk("duration", 0, Len(duration)),
       Lit("summary:4", 1264) >>

BasicText(script) ==
    Text(<< Lit("basic:1", 45), Chunk("timestamp", 0, 24),
            Lit("basic:2", 40),
            Chunk("scenarioType", 0, Len(script.scenario)),
            Lit("basic:3", 19), Chunk("vus", 0, Digits(script.vus)),
            Lit("basic:4", 6), Chunk("duration", 0, Len(script.duration)),
            Lit("basic:5", 11),
            Chunk("thinkTime", 0, Digits(script.thinkTime)),
            Lit("basic:6", 344) >>
         \o StagesText(script.scenario, script.vus, script.duration)
         \o << Lit("basic:7", 400), Chunk("baseUrl", 0, Len(script.baseUrl)),
               Lit("basic:8", 42),
               Chunk("thinkTime", 0, Digits(script.thinkTime)),
               Lit("basic:9", 2360) >>
         \o SummaryText(script.scenario, script.vus, script.duration))

\* JSON.stringify(endpoints, null, 2), re-indented, for the default endpoints
EndpointsText == << Lit("endpoints", 62) >>

ApiText(script) ==
    Text(<< Lit("api:1", 49), Chunk("timestamp", 0, 24),
            Lit("api:2", 12), Chunk("baseUrl", 0, Len(script.baseUrl)),
            Lit("api:3", 19), Chunk("vus", 0, Digits(script.vus)),
            Lit("api:4", 6), Chunk("duration", 0, Len(script.duration)),
            Lit("api:5", 181), Chunk("vus", 0, Digits(script.vus)),
            Lit("api:6", 15), Chunk("duration", 0, Len(script.duration)),
            Lit("api:7", 129), Chunk("baseUrl", 0, Len(script.baseUrl)),
            Lit("api:8", 42),
            Chunk("thinkTime", 0, Digits(script.thinkTime)),
            Lit("api:9", 72) >>
         \o EndpointsText
         \o << Lit("api:10", 382) >>)

HarText(script) ==
    Text(<< Lit("har:1", 52), Chunk("timestamp", 0, 24),
            Lit("har:2", 12), Chunk("harFile", 0, StringLength(script.source)),
            Lit("har:3", 142), Chunk("vus", 0, Digits(script.vus)),
            Lit("har:4", 15), Chunk("duration", 0, Len(script.duration)),
            Lit("har:5", 240) >>)

OpenApiText(script) ==
    Text(<< Lit("openapi:1", 65), Chunk("timestamp", 0, 24),
            Lit("openapi:2", 12),
            Chunk("specFile", 0, StringLength(script.source)),
            Lit("openapi:3", 146), Chunk("vus", 0, Digits(script.vus)),
            Lit("openapi:4", 15), Chunk("duration", 0, Len(script.duration)),
            Lit("openapi:5", 249) >>)

\* the characters of a rendered script
ScriptText(script) ==
    CASE script.template = "basic" -> BasicText(script)
      [] script.template = "api" -> ApiText(script)
      [] script.template = "har" -> HarText(script)
      [] script.template = "openapi" -> OpenApiText(script)

\* the sources whose generator is awaited (an async function)
AwaitedSources == {"har", "openapi"}

----------------------------------------------------------------------------
(* k6_generate *)

NoLocals == [serverAvailable |-> Undefined, timestamp |-> Undefined,
             script |-> Undefined, now |-> Undefined, fileName |-> Undefined,
             results |-> Undefined, data |-> Undefined, output |-> Undefined]

NoFiles == [n \in {} |-> 0]

\* a file name that leaves the epoch out
FileNameNoEpoch(source, now) ==
    [prefix |-> "generated", source |-> source, epochMillis |-> 0,
     ext |-> ".js"]

\* `generated_${source}_${Date.now()}.js`
FileName(source, now) ==
    [prefix |-> "generated", source |-> source, epochMillis |-> now,
     ext |-> ".js"]

\* the characters of the script that the response previews
PreviewLength == 500

\* a preview that quotes the whole script
PreviewUncut(script) ==
    [first |-> ScriptText(script), of |-> script, then |-> "..."]

\* script.substring(0, 500) + '...': the characters `first` of the text of
\* script, then the ellipsis
Preview(script) ==
    [first |-> Substring(ScriptText(script), PreviewLength), of |-> script,
     then |-> "..."]

\* the value handleGenerate returns after the file was written
GenerateSuccess(a, l) ==
    JsonResult(
      [success |-> Some(TRUE),
       message |-> Some(<<"K6 script generated and saved successfully">>),
       file |-> Some([path |-> <<"test-scripts", l.fileName[1]>>,
                      name |-> l.fileName[1],
                      source |-> a.source,
                      generated_at |-> l.timestamp[1]]),
       configuration |->
           Some([vus |-> OrNumber(a.options.vus, 10),
                 duration |-> OrString(a.options.duration, "2m"),
                 scenarios |-> IF IsDefined(a.options.scenarios)
                               THEN a.options.scenarios[1] ELSE <<"default">>,
                 thinkTime |-> OrNumber(a.options.thinkTime, 1)]),
       preview |-> Some(Preview(l.script[1]))])

\* a catch block that reports the message and the source but not the input
handleGenerateCatchNoInput(e, a) ==
    Fulfilled(JsonResult(
      [error |-> Some("Failed to generate K6 script"),
       message |-> e.message,
       source |-> Some(a.source),
       input |-> Undefined]))

\* the catch block of handleGenerate
handleGenerateCatch(e, a) ==
    Fulfilled(JsonResult(
      [error |-> Some("Failed to generate K6 script"),
       message |-> e.message,
       source |-> Some(a.source),
       input |-> a.input]))

\* a settled file system call
Fs(what, result) == [dir |-> "fs", what |-> what, result |-> result]

\* the error a failed file system call rejects with: its message starts
\* with the error code
FsError(code, rest) == Error(<<code, rest>>)

\* a send over one shared connection: an answer is not delivered while
\* another invocation awaits its own
SendSerialised(i, events) ==
    /\ events # <<>> /\ events[1].dir = "response" =>
          \A j \in Invocations \ {i} :
              IF log[j] = <<>> THEN TRUE
              ELSE log[j][Len(log[j])].dir # "request"
    /\ log' = [log EXCEPT ![i] = @ \o events]

Send(i, events) == log' = [log EXCEPT ![i] = @ \o events]

Finish(i, r) ==
    /\ pc' = [pc EXCEPT ![i] = "done"]
    /\ resp' = [resp EXCEPT ![i] = r]

\* time that passes while a synchronous segment runs
Elapse == \E d \in {0, 1} : clock + d <= MaxClock /\ clock' = clock + d

\* handleGenerate from its call to its first await.  The timestamp is read
\* on entry.  For basic and api the script is rendered synchronously and
\* saveGeneratedScript runs up to `await fs.mkdir`, reading Date.now() for
\* the file name; for har and openapi the handler first awaits the generator.
GenerateStartWith(i, arguments) ==
    /\ pc[i] = "idle"
    /\ \E a \in arguments :
         /\ args' = [args EXCEPT ![i] = a]
         /\ IF a.source \notin Sources
            THEN /\ Finish(i, handleGenerateCatch(
                        Error(<<"Unknown source type: ", a.source>>), a))
                 /\ local' = [local EXCEPT ![i].timestamp =
                                              Some(toISOString(clock))]
                 /\ UNCHANGED clock
            ELSE IF a.source \in AwaitedSources
            THEN /\ local' = [local EXCEPT
                        ![i].timestamp = Some(toISOString(clock)),
                        ![i].script = Some(RenderScript(a, toISOString(clock)))]
                 /\ pc' = [pc EXCEPT ![i] = "render"]
                 /\ UNCHANGED <<resp, clock>>
            ELSE /\ Elapse
                 /\ local' = [local EXCEPT
                        ![i].timestamp = Some(toISOString(clock)),
                        ![i].script = Some(RenderScript(a, toISOString(clock))),
                        ![i].now = Some(clock'),
                        ![i].fileName = Some(FileName(a.source, clock'))]
                 /\ pc' = [pc EXCEPT ![i] = "mkdir"]
                 /\ UNCHANGED resp
    /\ UNCHANGED <<log, files, pin, pout>>

\* a k6_generate call among concurrent tool invocations
GenerateStart(i) == GenerateStartWith(i, GenerateArgs)

\* the awaited har/openapi generator resolved: saveGeneratedScript runs up
\* to `await fs.mkdir`
GenerateRendered(i) ==
    /\ pc[i] = "render"
    /\ local' = [local EXCEPT
                    ![i].now = Some(clock),
                    ![i].fileName = Some(FileName(args[i].source, clock))]
    /\ pc' = [pc EXCEPT ![i] = "mkdir"]
    /\ UNCHANGED <<args, resp, log, clock, files, pin, pout>>

\* fs.mkdir(scriptsDir, { recursive: true }) settled
GenerateMkdirDone(i) ==
    /\ pc[i] = "mkdir"
    /\ \E ok \in BOOLEAN :
         IF ok
         THEN /\ pc' = [pc EXCEPT ![i] = "writeFile"]
              /\ Send(i, <<Fs("mkdir", "ok")>>)
              /\ UNCHANGED resp
         ELSE /\ Send(i, <<Fs("mkdir", "EACCES")>>)
              /\ Finish(i, handleGenerateCatch(
                     FsError("EACCES", ": permission denied, mkdir"), args[i]))
    /\ UNCHANGED <<args, local, clock, files, pin, pout>>

\* what fs.writeFile leaves behind: the whole text, nothing (the open
\* failed), or a truncated text (the write failed after the open)
WriteOutcomes == {"ok", "EACCES", "ENOSPC"}

Truncated(script) == [truncated |-> TRUE, of |-> script]

\* the directory after name is set to content
WriteFile(dir, name, content) ==
    [n \in DOMAIN dir \cup {name} |-> IF n = name THEN content ELSE dir[n]]

\* fs.writeFile(filePath, script) settled
GenerateWriteDone(i) ==
    /\ pc[i] = "writeFile"
    /\ \E w \in WriteOutcomes :
         /\ Send(i, <<Fs("writeFile", w)>>)
         /\ CASE w = "ok" ->
                   /\ files' = WriteFile(files, local[i].fileName[1],
                                         local[i].script[1])
                   /\ Finish(i, Fulfilled(GenerateSuccess(args[i], local[i])))
              [] w = "EACCES" ->
                   /\ UNCHANGED files
                   /\ Finish(i, handleGenerateCatch(
                          FsError("EACCES", ": permission denied, open"),
                          args[i]))
              [] w = "ENOSPC" ->
                   /\ files' = WriteFile(files, local[i].fileName[1],
                                         Truncated(local[i].script[1]))
                   /\ Finish(i, handleGenerateCatch(
                          FsError("ENOSPC", ": no space left on device, write"),
                          args[i]))
    /\ UNCHANGED <<args, local, clock, pin, pout>>

\* the clock advances
Tick ==
    /\ clock < MaxClock
    /\ clock' = clock + 1
    /\ UNCHANGED <<pc, args, local, resp, log, files, pin, pout>>

----------------------------------------------------------------------------
(* Forwarders: the requests they send to the App Server *)

Req(what) == [dir |-> "request", what |-> what]
Res(what, o) == [dir |-> "response", what |-> what, outcome |-> o]

Health == "GET /health"
PostRun == "POST /api/tests/run"
GetAvailable == "GET /api/tests/available"
GetStatus == "GET /api/tests/:id/status"
GetAll == "GET /api/tests/"
GetOutput == "GET /api/tests/:id/output"
GetResults == "GET /api/tests/:id/results"
PostAnalyze == "POST /api/tests/analyze"

\* every forwarder starts with `await checkAppServer()`, which sends the probe
ForwarderStart(i) ==
    /\ pc[i] = "idle"
    /\ \E a \in ForwarderArgs : args' = [args EXCEPT ![i] = a]
    /\ Send(i, <<Req(Health)>>)
    /\ pc' = [pc EXCEPT ![i] = "health"]
    /\ UNCHANGED <<local, resp, clock, files, pin, pout>>

\* `Test ${testId} not found`
NotFoundError(testId) == Error(<<"Test ", testId, " not found">>)

----------------------------------------------------------------------------
(* k6_run *)

handleRunCatch(e, a) ==
    IF ~IsDefined(e.message) THEN Rejected(TypeError)
    ELSE Fulfilled(JsonResult(
           [error |-> Some("Failed to start K6 test"),
            message |-> ErrorMessage(e),
            script |-> Some(a.script),
            hint |-> AppServerHint(e)]))

\* the fields destructured from a response body; all undefined on a string
Field(o, v) == IF o.body = "object" THEN Some(v) ELSE Undefined

RunSuccess(a, o) ==
    JsonResult(
      [success |-> Some(TRUE),
       message |-> Some(<<"K6 test started successfully">>),
       test |-> Some(JSONstringify(
                  [id |-> Field(o, "t1"), status |-> Some("running"),
                   script |-> Some(a.script)])),
       endpoints |-> Some([status |-> Field(o, "/api/tests/t1/status"),
                           results |-> Field(o, "/api/tests/t1/results"),
                           output |-> Field(o, "/api/tests/t1/output"),
                           stream |-> Field(o, "/api/tests/t1/stream")])])

\* the probe settled: handleRun up to `await axios.post`
RunProbed(i) ==
    /\ pc[i] = "health" /\ args[i].tool = "k6_run"
    /\ \E o \in HealthOutcomes :
         LET r == checkAppServer(o) IN
         IF r.threw
         THEN /\ Finish(i, handleRunCatch(r.error, args[i]))
              /\ Send(i, <<Res(Health, o)>>)
              /\ UNCHANGED local
         ELSE /\ local' = [local EXCEPT ![i].serverAvailable = Some(r.value)]
              /\ IF ~r.value
                 THEN /\ Finish(i, handleRunCatch(NotAvailableError, args[i]))
                      /\ Send(i, <<Res(Health, o)>>)
                 ELSE /\ Send(i, <<Res(Health, o), Req(PostRun)>>)
                      /\ pc' = [pc EXCEPT ![i] = "http"]
                      /\ UNCHANGED resp
    /\ UNCHANGED <<args, clock, files, pin, pout>>

\* POST /api/tests/run settled
RunPosted(i) ==
    /\ pc[i] = "http" /\ args[i].tool = "k6_run"
    /\ \E o \in CallOutcomes :
         /\ Send(i, <<Res(PostRun, o)>>)
         /\ Finish(i, IF ~Is2xx(o.status)
                      THEN handleRunCatch(AxiosError(o), args[i])
                      ELSE IF o.body = "null"
                      THEN handleRunCatch(TypeError, args[i])
                      ELSE Fulfilled(RunSuccess(args[i], o)))
    /\ UNCHANGED <<args, local, clock, files, pin, pout>>

----------------------------------------------------------------------------
(* k6_list *)

handleListCatch(e, now) ==
    IF ~IsDefined(e.message) THEN Rejected(TypeError)
    ELSE Fulfilled(JsonResult(
           [error |-> Some("Failed to list K6 scripts"),
            message |-> ErrorMessage(e),
            hint |-> AppServerHint(e),
            timestamp |-> Some(toISOString(now))]))

ListSuccess ==
    JsonResult(
      [scripts |-> Some(<<"load">>), count |-> Some(1),
       source |-> Some("k6-app-server"),
       appServerUrl |-> Some("http://localhost:3001")])

ListProbed(i) ==
    /\ pc[i] = "health" /\ args[i].tool = "k6_list"
    /\ \E o \in HealthOutcomes :
         LET r == checkAppServer(o) IN
         IF r.threw
         THEN /\ Finish(i, handleListCatch(r.error, clock))
              /\ Send(i, <<Res(Health, o)>>)
              /\ UNCHANGED local
         ELSE /\ local' = [local EXCEPT ![i].serverAvailable = Some(r.value)]
              /\ IF ~r.value
                 THEN /\ Finish(i, handleListCatch(NotAvailableError, clock))
                      /\ Send(i, <<Res(Health, o)>>)
                 ELSE /\ Send(i, <<Res(Health, o), Req(GetAvailable)>>)
                      /\ pc' = [pc EXCEPT ![i] = "http"]
                      /\ UNCHANGED resp
    /\ UNCHANGED <<args, clock, files, pin, pout>>

\* GET /api/tests/available settled; tests.map throws unless tests is a list
ListFetched(i) ==
    /\ pc[i] = "http" /\ args[i].tool = "k6_list"
    /\ \E o \in CallOutcomes :
         /\ Send(i, <<Res(GetAvailable, o)>>)
         /\ Finish(i, IF ~Is2xx(o.status)
                      THEN handleListCatch(AxiosError(o), clock)
                      ELSE IF o.body # "object"
                      THEN handleListCatch(TypeError, clock)
                      ELSE Fulfilled(ListSuccess))
    /\ UNCHANGED <<args, local, clock, files, pin, pout>>

----------------------------------------------------------------------------
(* k6_status *)

handleStatusCatch(e) ==
    IF ~IsDefined(e.message) THEN Rejected(TypeError)
    ELSE Fulfilled(JsonResult(
           [error |-> Some("Failed to get test status"),
            message |-> ErrorMessage(e),
            hint |-> AppServerHint(e)]))

\* the catch block of getSpecificTestStatus and of analyzeFromTestId:
\* the error that leaves the inner try for the axios error e
RethrowNotFound(e, testId) ==
    IF e.status = 404 THEN NotFoundError(testId) ELSE e

\* getSpecificTestStatus / getAllTestsStatus once their GET settled
StatusResult(a, o) ==
    IF Truthy(a.testId)
    THEN IF ~Is2xx(o.status)
         THEN handleStatusCatch(RethrowNotFound(AxiosError(o), a.testId[1]))
         ELSE IF o.body = "null"
         THEN handleStatusCatch(RethrowNotFound(TypeError, a.testId[1]))
         ELSE Fulfilled(JsonResult([testId |-> Field(o, a.testId[1]),
                                    status |-> Field(o, "running"),
                                    runningFor |-> Field(o, "0s")]))
    ELSE IF ~Is2xx(o.status) THEN handleStatusCatch(AxiosError(o))
         ELSE IF o.body = "null" THEN handleStatusCatch(TypeError)
         ELSE Fulfilled(JsonResult(
                [summary |-> Some([total |-> IF o.body = "object" THEN 1 ELSE 0]),
                 tests |-> Some(IF o.body = "object" THEN <<"t1">> ELSE <<>>)]))

StatusProbed(i) ==
    /\ pc[i] = "health" /\ args[i].tool = "k6_status"
    /\ \E o \in HealthOutcomes :
         LET r == checkAppServer(o) IN
         IF r.threw
         THEN /\ Finish(i, handleStatusCatch(r.error))
              /\ Send(i, <<Res(Health, o)>>)
              /\ UNCHANGED local
         ELSE /\ local' = [local EXCEPT ![i].serverAvailable = Some(r.value)]
              /\ IF ~r.value
                 THEN /\ Finish(i, handleStatusCatch(NotAvailableError))
                      /\ Send(i, <<Res(Health, o)>>)
                 ELSE /\ Send(i, <<Res(Health, o),
                                   Req(IF Truthy(args[i].testId)
                                       THEN GetStatus ELSE GetAll)>>)
                      /\ pc' = [pc EXCEPT ![i] = "http"]
                      /\ UNCHANGED resp
    /\ UNCHANGED <<args, clock, files, pin, pout>>

StatusFetched(i) ==
    /\ pc[i] = "http" /\ args[i].tool = "k6_status"
    /\ \E o \in CallOutcomes :
         /\ Send(i, <<Res(IF Truthy(args[i].testId) THEN GetStatus ELSE GetAll,
                          o)>>)
         /\ Finish(i, StatusResult(args[i], o))
    /\ UNCHANGED <<args, local, clock, files, pin, pout>>

----------------------------------------------------------------------------
(* k6_output *)

\* `Test ${testId} not found. Use k6_status to list available tests.`
NotFoundHint(testId) ==
    <<"Test ", testId, " not found. Use k6_status to list available tests.">>

handleOutputCatch(e, a) ==
    IF e.status # 404 /\ ~IsDefined(e.message) THEN Rejected(TypeError)
    ELSE Fulfilled(JsonResult(
           [error |-> Some("Failed to get test output"),
            message |-> ErrorMessage(e),
            testId |-> a.testId,
            hint |-> IF e.status = 404 THEN Some(NotFoundHint(a.testId[1]))
                     ELSE IF IncludesAppServer(e.message[1])
                     THEN Some(StartHint)
                     ELSE Undefined]))

\* the standard output kept in full by formatOutput
MaxOutputLength == 10000

\* A string of a response body: so many characters, ending with a newline
\* or not.  Its characters are the chunk named after its field.
String(length, newline) == [length |-> length, newline |-> newline]

CharactersOf(field, string) == Text(<<Chunk(field, 0, string.length)>>)

\* the truthiness of an optional string of a body
NonEmpty(o) == IsDefined(o) /\ o[1].length > 0

\* response.data of GET /api/tests/:id/output
OutputData(status, output, errorOutput) ==
    [status |-> status, output |-> output, errorOutput |-> errorOutput]

\* a string body: every destructured field is undefined
NoData == OutputData(Undefined, Undefined, Undefined)

\* The bodies tried: outputs around the cutoff, with and without a final
\* newline, with and without error output.  They carry no metrics and no
\* summary, so formatOutput adds neither section.
OutputLengths == {0, 1, MaxOutputLength, MaxOutputLength + 1,
                  2 * MaxOutputLength + 5000}

OutputBodies ==
    {OutputData(Some("completed"), out, err) :
        out \in {Undefined} \cup {Some(String(n, nl)) :
                                      n \in OutputLengths, nl \in BOOLEAN},
        err \in {Undefined, Some(String(40, TRUE))}}

\* the data a 2xx answer with body o.body is destructured into
OutputDataOf(o) ==
    IF Is2xx(o.status) /\ o.body = "object" THEN OutputBodies ELSE {NoData}

\* '... (output truncated) ...\n'
TruncationMarker == Lit("... (output truncated) ...\n", 27)

\* a cut that keeps the head of the output and drops its tail
CutOutputHead(text) ==
    IF Length(text) > MaxOutputLength
    THEN <<TruncationMarker>> \o Substring(text, MaxOutputLength)
    ELSE text

\* the standard output as formatOutput includes it: whole up to
\* maxOutputLength characters, else the marker and output.slice(-maxOutputLength)
CutOutput(text) ==
    IF Length(text) > MaxOutputLength
    THEN <<TruncationMarker>> \o SliceLast(text, MaxOutputLength)
    ELSE text

\* formattedOutput += '\n' unless the string ends with one
EndOfLine(string) == IF string.newline THEN <<>> ELSE <<Lit("\n", 1)>>

\* formatOutput: a plain text, not a JSON document
formatOutput(data, testId) ==
    ToolResult("plain",
      Text(<< Lit("rule of 60, \n", 61),
              Lit("Test ID: ", 9), Chunk("testId", 0, Len(testId)),
              Lit("\n", 1),
              Lit("Status: ", 8),
              Chunk("status", 0, StringLength(data.status)),
              Lit("\n", 1),
              Lit("rule of 60, \n\n", 62) >>
           \o (IF NonEmpty(data.output)
               THEN << Lit("Standard Output:\n", 20),
                       Lit("rule of 40, \n", 41) >>
                    \o CutOutput(CharactersOf("output", data.output[1]))
                    \o EndOfLine(data.output[1])
               ELSE <<>>)
           \o (IF NonEmpty(data.errorOutput)
               THEN << Lit("\n", 1), Lit("Error Output:\n", 16),
                       Lit("rule of 40, \n", 41) >>
                    \o CharactersOf("errorOutput", data.errorOutput[1])
                    \o EndOfLine(data.errorOutput[1])
               ELSE <<>>)
           \o << Lit("\n, rule of 60", 61) >>))

OutputProbed(i) ==
    /\ pc[i] = "health" /\ args[i].tool = "k6_output"
    /\ \E o \in HealthOutcomes :
         LET r == checkAppServer(o) IN
         IF r.threw
         THEN /\ Finish(i, handleOutputCatch(r.error, args[i]))
              /\ Send(i, <<Res(Health, o)>>)
              /\ UNCHANGED local
         ELSE /\ local' = [local EXCEPT ![i].serverAvailable = Some(r.value)]
              /\ IF ~r.value
                 THEN /\ Finish(i, handleOutputCatch(NotAvailableError, args[i]))
                      /\ Send(i, <<Res(Health, o)>>)
                 ELSE /\ Send(i, <<Res(Health, o), Req(GetOutput)>>)
                      /\ pc' = [pc EXCEPT ![i] = "http"]
                      /\ UNCHANGED resp
    /\ UNCHANGED <<args, clock, files, pin, pout>>

OutputFetched(i) ==
    /\ pc[i] = "http" /\ args[i].tool = "k6_output"
    /\ \E o \in CallOutcomes :
         /\ Send(i, <<Res(GetOutput, o)>>)
         /\ IF ~Is2xx(o.status)
            THEN /\ Finish(i, handleOutputCatch(AxiosError(o), args[i]))
                 /\ UNCHANGED local
            ELSE IF o.body = "null"
            THEN /\ Finish(i, handleOutputCatch(TypeError, args[i]))
                 /\ UNCHANGED local
            ELSE \E data \in OutputDataOf(o) :
                 /\ local' = [local EXCEPT ![i].data = Some(data)]
                 /\ Finish(i, Fulfilled(formatOutput(data,
                                                     args[i].testId[1])))
    /\ UNCHANGED <<args, clock, files, pin, pout>>

----------------------------------------------------------------------------
(* k6_analyze *)

handleAnalyzeCatch(e) ==
    IF ~IsDefined(e.message) THEN Rejected(TypeError)
    ELSE Fulfilled(JsonResult(
           [error |-> Some("Failed to analyze K6 results"),
            message |-> ErrorMessage(e),
            hint |-> AppServerHint(e)]))

\* new Error('Either testId or resultFile must be provided')
UsageText == "Either testId or resultFile must be provided"
UsageError == Error(<<UsageText>>)

\* a dispatch that gives up whenever the gate reports unavailable
AnalyzeBranchGated(a, serverAvailable) ==
    IF ~serverAvailable THEN "throw"
    ELSE IF Truthy(a.testId) THEN "analyzeFromTestId"
    ELSE IF Truthy(a.resultFile) THEN "analyzeFromFile"
    ELSE "throw"

\* a dispatch that asks for the results without looking at the gate
AnalyzeBranchIgnoresGate(a, serverAvailable) ==
    IF Truthy(a.testId) THEN "analyzeFromTestId"
    ELSE IF Truthy(a.resultFile) THEN "analyzeFromFile"
    ELSE "throw"

\* a dispatch that reads a missing resultFile instead of rejecting the call
AnalyzeBranchNoUsageError(a, serverAvailable) ==
    IF Truthy(a.testId) /\ serverAvailable THEN "analyzeFromTestId"
    ELSE "analyzeFromFile"

\* the branch handleAnalyze takes after the probe
AnalyzeBranch(a, serverAvailable) ==
    IF Truthy(a.testId) /\ serverAvailable THEN "analyzeFromTestId"
    ELSE IF Truthy(a.resultFile) THEN "analyzeFromFile"
    ELSE "throw"

AnalyzeProbed(i) ==
    /\ pc[i] = "health" /\ args[i].tool = "k6_analyze"
    /\ \E o \in HealthOutcomes :
         LET r == checkAppServer(o) IN
         IF r.threw
         THEN /\ Finish(i, handleAnalyzeCatch(r.error))
              /\ Send(i, <<Res(Health, o)>>)
              /\ UNCHANGED local
         ELSE /\ local' = [local EXCEPT ![i].serverAvailable = Some(r.value)]
              /\ CASE AnalyzeBranch(args[i], r.value) = "analyzeFromTestId" ->
                        /\ Send(i, <<Res(Health, o), Req(GetResults)>>)
                        /\ pc' = [pc EXCEPT ![i] = "results"]
                        /\ UNCHANGED resp
                   [] AnalyzeBranch(args[i], r.value) = "analyzeFromFile" ->
                        /\ Send(i, <<Res(Health, o)>>)
                        /\ pc' = [pc EXCEPT ![i] = "readFile"]
                        /\ UNCHANGED resp
                   [] OTHER ->
                        /\ Send(i, <<Res(Health, o)>>)
                        /\ Finish(i, handleAnalyzeCatch(UsageError))
    /\ UNCHANGED <<args, clock, files, pin, pout>>

RunningResult(a, o) ==
    JsonResult([testId |-> a.testId, status |-> Some("running"),
                message |-> Field(o, <<"Test is still running">>)])

AnalysisResult(a, o) ==
    IF Truthy(a.testId)
    THEN JsonResult([testId |-> a.testId,
                     status |-> Some("completed"),
                     metrics |-> Field(o, "metrics"),
                     issues |-> Field(o, "issues"),
                     recommendations |-> Field(o, "recommendations"),
                     summary |-> Field(o, "summary")])
    ELSE JsonResult([source |-> Some("file"),
                     file |-> a.resultFile,
                     metrics |-> Field(o, "metrics"),
                     issues |-> Field(o, "issues"),
                     recommendations |-> Field(o, "recommendations"),
                     summary |-> Field(o, "summary")])

\* A report is the list of its lines.  Of a line the model keeps the metric
\* it names and the decimal texts that the patterns of parseMetricsFromOutput
\* capture in it: avg=(..)ms, p(95)=(..)ms, p(99)=(..)ms, (..)/s and (..)%,
\* each undefined where the pattern does not match.
ReportLine(metric, avg, p95, p99, perSecond, percent) ==
    [metric |-> metric, avg |-> avg, p95 |-> p95, p99 |-> p99,
     perSecond |-> perSecond, percent |-> percent]

\* a text matching [0-9.]+ : the decimal units.hundredths, or dots only
Decimal(units, hundredths) ==
    [digits |-> TRUE, units |-> units, hundredths |-> hundredths]
Dots == [digits |-> FALSE, units |-> 0, hundredths |-> 0]

\* parseFloat of such a text.  Numbers are held in hundredths throughout the
\* analysis: 450 is 45000 and 0.05 is 5.
parseFloat(text) ==
    IF text.digits THEN Some(text.units * 100 + text.hundredths) ELSE NaN

\* const metrics = {}
NoMetrics ==
    [avgResponseTime |-> Undefined, p95ResponseTime |-> Undefined,
     p99ResponseTime |-> Undefined, requestsPerSecond |-> Undefined,
     errorRate |-> Undefined, avgWaitTime |-> Undefined,
     avgConnectTime |-> Undefined]

\* the body of the loop of parseMetricsFromOutput for one line
ParseLine(metrics, line) ==
    CASE line.metric = "http_req_duration" ->
           IF IsDefined(line.avg) /\ IsDefined(line.p95) /\ IsDefined(line.p99)
           THEN [metrics EXCEPT !.avgResponseTime = parseFloat(line.avg[1]),
                                !.p95ResponseTime = parseFloat(line.p95[1]),
                                !.p99ResponseTime = parseFloat(line.p99[1])]
           ELSE metrics
      [] line.metric = "http_reqs" ->
           IF IsDefined(line.perSecond)
           THEN [metrics EXCEPT
                    !.requestsPerSecond = parseFloat(line.perSecond[1])]
           ELSE metrics
      [] line.metric = "http_req_failed" ->
           IF IsDefined(line.percent)
           THEN [metrics EXCEPT !.errorRate = parseFloat(line.percent[1])]
           ELSE metrics
      [] line.metric = "http_req_waiting" ->
           IF IsDefined(line.avg)
           THEN [metrics EXCEPT !.avgWaitTime = parseFloat(line.avg[1])]
           ELSE metrics
      [] line.metric = "http_req_connecting" ->
           IF IsDefined(line.avg)
           THEN [metrics EXCEPT !.avgConnectTime = parseFloat(line.avg[1])]
           ELSE metrics
      [] OTHER -> metrics

RECURSIVE ParseLines(_, _)
ParseLines(metrics, lines) ==
    IF lines = <<>> THEN metrics
    ELSE ParseLines(ParseLine(metrics, lines[1]), Tail(lines))

parseMetricsFromOutput(output) == ParseLines(NoMetrics, output)

Issue(severity, metric, value, threshold, description) ==
    [severity |-> severity, metric |-> metric, value |-> value,
     threshold |-> threshold, description |-> description]

\* a reliability band whose cutoffs are inclusive
ReliabilityBandInclusive(errorRate) ==
    IF IsNumber(errorRate) /\ errorRate[1] <= 10 THEN "excellent"
    ELSE IF IsNumber(errorRate) /\ errorRate[1] <= 100 THEN "good"
    ELSE IF IsNumber(errorRate) /\ errorRate[1] <= 500 THEN "fair"
    ELSE "poor"

\* the bands of the summary; the cutoffs are 500, 1000 and 2000 ms,
\* 0.1, 1 and 5 percent, 100 and 50 requests per second
PerformanceBand(p95ResponseTime) ==
    IF LessThan(p95ResponseTime, 50000) THEN "excellent"
    ELSE IF LessThan(p95ResponseTime, 100000) THEN "good"
    ELSE IF LessThan(p95ResponseTime, 200000) THEN "fair"
    ELSE "poor"

ReliabilityBand(errorRate) ==
    IF LessThan(errorRate, 10) THEN "excellent"
    ELSE IF LessThan(errorRate, 100) THEN "good"
    ELSE IF LessThan(errorRate, 500) THEN "fair"
    ELSE "poor"

ThroughputBand(requestsPerSecond) ==
    IF GreaterThan(requestsPerSecond, 10000) THEN "high"
    ELSE IF GreaterThan(requestsPerSecond, 5000) THEN "medium"
    ELSE "low"

performBasicAnalysis(metrics) ==
    [issues |->
        (IF GreaterThan(metrics.p95ResponseTime, 100000)
         THEN <<Issue("high", "p95ResponseTime", metrics.p95ResponseTime[1],
                      100000, "P95 response time exceeds 1 second")>>
         ELSE <<>>)
        \o (IF GreaterThan(metrics.errorRate, 100)
            THEN <<Issue("critical", "errorRate", metrics.errorRate[1],
                         100, "Error rate exceeds 1%")>>
            ELSE <<>>)
        \o (IF GreaterThan(metrics.avgConnectTime, 10000)
            THEN <<Issue("medium", "avgConnectTime",
                         metrics.avgConnectTime[1], 10000,
                         "Connection time is high")>>
            ELSE <<>>),
     recommendations |->
        (IF GreaterThan(metrics.p95ResponseTime, 100000)
         THEN <<"Optimize slow endpoints or database queries">> ELSE <<>>)
        \o (IF GreaterThan(metrics.errorRate, 100)
            THEN <<"Investigate and fix failing requests">> ELSE <<>>)
        \o (IF GreaterThan(metrics.avgConnectTime, 10000)
            THEN <<"Consider connection pooling or CDN">> ELSE <<>>),
     summary |->
        [performance |-> PerformanceBand(metrics.p95ResponseTime),
         reliability |-> ReliabilityBand(metrics.errorRate),
         throughput |-> ThroughputBand(metrics.requestsPerSecond)]]

\* the reports a result file may hold: the report of a fast and reliable
\* run, an empty file, and the report of a slow and failing run that also
\* has a duration line without p(99) and a rate of dots only
FastReport ==
    << ReportLine("http_req_duration", Some(Decimal(120, 0)),
                  Some(Decimal(450, 0)), Some(Decimal(900, 0)),
                  Undefined, Undefined),
       ReportLine("http_req_failed", Undefined, Undefined, Undefined,
                  Undefined, Some(Decimal(0, 5))) >>

SlowReport ==
    << ReportLine("http_req_duration", Some(Decimal(800, 0)),
                  Some(Decimal(2500, 0)), Some(Decimal(4000, 0)),
                  Undefined, Undefined),
       ReportLine("http_req_duration", Some(Decimal(1, 0)),
                  Some(Decimal(1, 0)), Undefined, Undefined, Undefined),
       ReportLine("http_reqs", Undefined, Undefined, Undefined,
                  Some(Dots), Undefined),
       ReportLine("http_req_failed", Undefined, Undefined, Undefined,
                  Undefined, Some(Decimal(7, 0))),
       ReportLine("http_req_connecting", Some(Decimal(150, 0)), Undefined,
                  Undefined, Undefined, Undefined),
       ReportLine("checks", Undefined, Undefined, Undefined, Undefined,
                  Some(Decimal(93, 0))) >>

Reports == {FastReport, <<>>, SlowReport}

\* analyzeFromFile without the App Server: parseMetricsFromOutput and
\* performBasicAnalysis on the text read
LocalAnalysisResult(a, output) ==
    JsonResult(
      [source |-> Some("file"),
       file |-> a.resultFile,
       metrics |-> Some(parseMetricsFromOutput(output)),
       issues |-> Some(performBasicAnalysis(
                         parseMetricsFromOutput(output)).issues),
       recommendations |-> Some(performBasicAnalysis(
                                  parseMetricsFromOutput(output))
                                  .recommendations),
       summary |-> Some(performBasicAnalysis(
                          parseMetricsFromOutput(output)).summary),
       note |-> Some("Basic analysis without App Server")])

\* `${path}` for an optional path
PathText(o) == IF IsDefined(o) THEN o[1] ELSE "undefined"

\* GET /api/tests/:id/results settled: analyzeFromTestId up to its return
\* or to `await axios.post`
\* what GET /:id/results may bring: any outcome of a call, and a 202 whose
\* body is the JSON null
ResultsOutcomes ==
    CallOutcomes \cup {Outcome(202, "null", Undefined, Undefined)}

\* a results request answered without the check for a running test
StillRunningUnchecked(o) == FALSE

\* resultsResponse.status === 202
StillRunning(o) == o.status = 202

AnalyzeResultsFetched(i) ==
    /\ pc[i] = "results"
    /\ \E o \in ResultsOutcomes :
         IF ~Is2xx(o.status) \/ o.body = "null"
         THEN /\ Send(i, <<Res(GetResults, o)>>)
              /\ Finish(i, handleAnalyzeCatch(
                     IF ~Is2xx(o.status)
                     THEN RethrowNotFound(AxiosError(o), args[i].testId[1])
                     ELSE TypeError))
              /\ UNCHANGED local
         ELSE IF StillRunning(o)
         THEN /\ Send(i, <<Res(GetResults, o)>>)
              /\ Finish(i, Fulfilled(RunningResult(args[i], o)))
              /\ UNCHANGED local
         ELSE /\ Send(i, <<Res(GetResults, o), Req(PostAnalyze)>>)
              /\ local' = [local EXCEPT ![i].results = Some(o)]
              /\ pc' = [pc EXCEPT ![i] = "analyze"]
              /\ UNCHANGED resp
    /\ UNCHANGED <<args, clock, files, pin, pout>>

\* fs.readFile(resultFile, 'utf-8') settled: analyzeFromFile up to its return
\* or to `await axios.post`
AnalyzeFileRead(i) ==
    /\ pc[i] = "readFile"
    /\ \/ /\ Finish(i, handleAnalyzeCatch(
                   Error(<<"ENOENT: no such file or directory, open '",
                           PathText(args[i].resultFile), "'">>)))
          /\ Send(i, <<Fs("readFile", "ENOENT")>>)
          /\ UNCHANGED local
       \/ \E output \in Reports :
            /\ local' = [local EXCEPT ![i].output = Some(output)]
            /\ IF local[i].serverAvailable[1]
               THEN /\ Send(i, <<Fs("readFile", "ok"), Req(PostAnalyze)>>)
                    /\ pc' = [pc EXCEPT ![i] = "analyze"]
                    /\ UNCHANGED resp
               ELSE /\ Finish(i, Fulfilled(LocalAnalysisResult(args[i],
                                                               output)))
                    /\ Send(i, <<Fs("readFile", "ok")>>)
    /\ UNCHANGED <<args, clock, files, pin, pout>>

\* POST /api/tests/analyze settled.  Inside analyzeFromTestId a 404 is
\* rethrown as "not found"; analyzeFromFile has no inner try.
AnalyzePosted(i) ==
    /\ pc[i] = "analyze"
    /\ \E o \in CallOutcomes :
         /\ Send(i, <<Res(PostAnalyze, o)>>)
         /\ Finish(i, IF ~Is2xx(o.status)
                      THEN handleAnalyzeCatch(
                             IF IsDefined(local[i].results)
                             THEN RethrowNotFound(AxiosError(o),
                                                  args[i].testId[1])
                             ELSE AxiosError(o))
                      ELSE IF o.body = "null"
                      THEN handleAnalyzeCatch(TypeError)
                      ELSE Fulfilled(AnalysisResult(args[i], o)))
    /\ UNCHANGED <<args, local, clock, files, pin, pout>>

----------------------------------------------------------------------------
(* The server: concurrent tool invocations *)

Init ==
    /\ pc = [i \in Invocations |-> "idle"]
    /\ args = [i \in Invocations |-> NoArgs]
    /\ local = [i \in Invocations |-> NoLocals]
    /\ resp = [i \in Invocations |-> Pending]
    /\ log = [i \in Invocations |-> <<>>]
    /\ clock = 0
    /\ files = NoFiles
    /\ pin = [scenarioType |-> "ramping", vus |-> 10, duration |-> "2m"]
    /\ pout = [planned |-> FALSE, stages |-> <<>>]

Next ==
    \/ Tick
    \/ \E i \in Invocations :
         \/ GenerateStart(i)
         \/ GenerateRendered(i)
         \/ GenerateMkdirDone(i)
         \/ GenerateWriteDone(i)
         \/ ForwarderStart(i)
         \/ RunProbed(i)
         \/ RunPosted(i)
         \/ ListProbed(i)
         \/ ListFetched(i)
         \/ StatusProbed(i)
         \/ StatusFetched(i)
         \/ OutputProbed(i)
         \/ OutputFetched(i)
         \/ AnalyzeProbed(i)
         \/ AnalyzeResultsFetched(i)
         \/ AnalyzeFileRead(i)
         \/ AnalyzePosted(i)

Spec == Init /\ [][Next]_vars

----------------------------------------------------------------------------
(* Vocabulary of the properties *)

Done(i) == pc[i] = "done"

IsForwarder(i) == args[i].tool \in Forwarders

\* the document a fulfilled invocation returned
Doc(i) == resp[i].value.content[1].text

ReturnedJson(i) ==
    /\ resp[i].state = "fulfilled"
    /\ Len(resp[i].value.content) = 1
    /\ resp[i].value.content[1].format = "json"

\* a structured error object: a JSON document with an error and a message
ReturnedError(i) ==
    ReturnedJson(i) /\ {"error", "message"} \subseteq DOMAIN Doc(i)

\* the requests other than the probe that invocation i sent, in order
RECURSIVE CallsIn(_)
CallsIn(events) ==
    IF events = <<>> THEN <<>>
    ELSE IF events[1].dir = "request" /\ events[1].what # Health
         THEN <<events[1].what>> \o CallsIn(Tail(events))
         ELSE CallsIn(Tail(events))

Calls(i) == CallsIn(log[i])

\* the answer to the probe of invocation i has arrived
Probed(i) ==
    /\ Len(log[i]) >= 2
    /\ log[i][2].dir = "response" /\ log[i][2].what = Health

ProbeOutcome(i) == log[i][2].outcome

\* the probe succeeded and its body's status field is "healthy"
Healthy(o) == Is2xx(o.status) /\ o.health = Some("healthy")

\* some forwarded call of i ended without a 2xx answer
CallFailed(i) ==
    \E k \in 1 .. Len(log[i]) :
        /\ log[i][k].dir = "response"
        /\ log[i][k].what # Health
        /\ ~Is2xx(log[i][k].outcome.status)

\* some file system call of i failed
FsFailed(i) ==
    \E k \in 1 .. Len(log[i]) :
        log[i][k].dir = "fs" /\ log[i][k].result # "ok"

\* the gate stopped invocation i: the probe said unavailable and the tool
\* has no way on without the service
GateClosed(i) ==
    /\ IsForwarder(i) /\ Probed(i) /\ ~Healthy(ProbeOutcome(i))
    /\ args[i].tool = "k6_analyze" => ~Truthy(args[i].resultFile)

\* invocation i met a failure
Failure(i) ==
    \/ CallFailed(i)
    \/ FsFailed(i)
    \/ GateClosed(i)
    \/ args[i].tool = "k6_generate" /\ args[i].source \notin Sources
    \/ /\ args[i].tool = "k6_analyze" /\ Probed(i)
       /\ ~Truthy(args[i].testId) /\ ~Truthy(args[i].resultFile)

----------------------------------------------------------------------------
(* C1 *)

\* C1: every tool handler returns a response and lets no exception escape,
\* whatever the outcomes of the probe, of the forwarded calls and of the file
\* system; after a failure the response is a structured error object with an
\* error and a message field.
C1_NothingEscapes ==
    \A i \in Invocations :
        /\ resp[i].state # "rejected"
        /\ Done(i) => /\ resp[i].state = "fulfilled"
                      /\ Failure(i) => ReturnedError(i)

\* both invocations ended in a failure of a different sort: a forwarder
\* stopped at the gate, and a generate call whose file write failed
C1_Witness ==
    \E i, j \in Invocations :
        /\ Done(i) /\ GateClosed(i) /\ ReturnedError(i)
        /\ Done(j) /\ args[j].tool = "k6_generate" /\ FsFailed(j)
        /\ ReturnedError(j)

----------------------------------------------------------------------------
(* C2 *)

\* the probe is the first request, and every other request follows its answer
ProbeFirst(i) ==
    /\ log[i] # <<>> /\ log[i][1] = Req(Health)
    /\ \A k \in 1 .. Len(log[i]) :
          log[i][k].dir = "request" /\ log[i][k].what # Health
              => k > 2 /\ Probed(i)
    /\ \A k \in 2 .. Len(log[i]) : log[i][k] # Req(Health)

\* no request follows a probe that reported unavailable
GateHolds(i) ==
    local[i].serverAvailable # Some(TRUE) => Calls(i) = <<>>

\* C2 as stated: every forwarder probes first, sends nothing after an
\* unavailable probe, and sends exactly one call after an available one.
C2_ExactlyOneCall ==
    \A i \in Invocations :
        IsForwarder(i) =>
            /\ ProbeFirst(i)
            /\ GateHolds(i)
            /\ Done(i) /\ local[i].serverAvailable = Some(TRUE)
                  => Len(Calls(i)) = 1

\* the calls k6_analyze may have sent when it returns
AnalyzeCalls(a) ==
    IF Truthy(a.testId) THEN {<<GetResults>>, <<GetResults, PostAnalyze>>}
    ELSE IF Truthy(a.resultFile) THEN {<<>>, <<PostAnalyze>>}
    ELSE {<<>>}

\* C2 amended: every forwarder probes first and sends nothing after an
\* unavailable probe.  After an available probe k6_run, k6_list, k6_status
\* and k6_output send exactly one call; k6_analyze sends the results request
\* and then, when the results are ready, the analyze request (given a
\* testId), at most the analyze request (given only a resultFile), or
\* nothing (given neither).
C2_CallsAfterProbe ==
    \A i \in Invocations :
        IsForwarder(i) =>
            /\ ProbeFirst(i)
            /\ GateHolds(i)
            /\ Done(i) /\ local[i].serverAvailable = Some(TRUE)
                  => IF args[i].tool = "k6_analyze"
                     THEN Calls(i) \in AnalyzeCalls(args[i])
                     ELSE Len(Calls(i)) = 1

\* one forwarder returned after its single call, while k6_analyze returned
\* after its two calls
C2_Witness ==
    \E i, j \in Invocations :
        /\ Done(i) /\ args[i].tool = "k6_run" /\ Calls(i) = <<PostRun>>
        /\ Done(j) /\ args[j].tool = "k6_analyze"
        /\ Calls(j) = <<GetResults, PostAnalyze>>

----------------------------------------------------------------------------
(* C3 *)

\* C3: checkAppServer returns true exactly when the GET /health probe
\* succeeds with a body whose status field is "healthy"; after an
\* unreachable target, a non-2xx status, a malformed or empty body or any
\* other status value it returns false, and it never throws.
C3_HealthyIff ==
    \A i \in Invocations :
        IsForwarder(i) /\ Probed(i) =>
            /\ IsDefined(local[i].serverAvailable)
            /\ local[i].serverAvailable[1] = Healthy(ProbeOutcome(i))

\* the gate said false for a 500 whose body claims "healthy" and for a 200
\* with a null body, where reading response.data.status throws
C3_Witness ==
    \E i, j \in Invocations :
        /\ Probed(i) /\ ProbeOutcome(i).status = 500
        /\ ProbeOutcome(i).health = Some("healthy")
        /\ local[i].serverAvailable = Some(FALSE)
        /\ Probed(j) /\ ProbeOutcome(j).body = "null"
        /\ local[j].serverAvailable = Some(FALSE)

----------------------------------------------------------------------------
(* C4 *)

IsGenerate(i) == args[i].tool = "k6_generate"

\* the generate call of i wrote its file and returned success
Generated(i) ==
    /\ IsGenerate(i) /\ Done(i) /\ ReturnedJson(i)
    /\ "success" \in DOMAIN Doc(i)

\* invocation i has called fs.writeFile, which may have opened and
\* truncated the file of its name
Writing(i) ==
    \/ pc[i] = "writeFile"
    \/ \E k \in 1 .. Len(log[i]) :
          log[i][k].dir = "fs" /\ log[i][k].what = "writeFile"

\* C4 as stated: any two successful generate calls have distinct file names,
\* and the file of each holds the script of the call that created it.
C4_DistinctFiles ==
    \A i \in Invocations :
        Generated(i) =>
            /\ local[i].fileName[1] \in DOMAIN files
            /\ files[local[i].fileName[1]] = local[i].script[1]
            /\ \A j \in Invocations \ {i} :
                  Generated(j) => local[j].fileName[1] # local[i].fileName[1]

\* calls i and j are of one source kind and read the same millisecond
SameKindSameMillisecond(i, j) ==
    /\ args[i].source = args[j].source
    /\ local[i].now = local[j].now

\* C4 amended: every successful generate call creates a script file that is
\* never deleted.  Two generate calls have the same file name exactly when
\* they are of the same source kind and read the same millisecond epoch; the
\* file of a successful call keeps that call's script unless such a
\* colliding call has started to write it.
C4_DistinctUnlessSameMillisecond ==
    \A i \in Invocations :
        /\ \A j \in Invocations \ {i} :
              IsGenerate(i) /\ IsGenerate(j)
              /\ IsDefined(local[i].fileName) /\ IsDefined(local[j].fileName)
                 => (local[i].fileName = local[j].fileName
                        <=> SameKindSameMillisecond(i, j))
        /\ Generated(i) =>
              /\ local[i].fileName[1] \in DOMAIN files
              /\ \/ files[local[i].fileName[1]] = local[i].script[1]
                 \/ \E j \in Invocations \ {i} :
                       /\ IsGenerate(j) /\ Writing(j)
                       /\ SameKindSameMillisecond(i, j)

\* two successful calls of one source kind with the same options, a
\* millisecond apart: two files, each with its own script
C4_Witness ==
    \E i, j \in Invocations :
        /\ i # j /\ Generated(i) /\ Generated(j)
        /\ args[i] = args[j]
        /\ local[j].now[1] = local[i].now[1] + 1
        /\ local[i].fileName # local[j].fileName
        /\ files[local[i].fileName[1]] = local[i].script[1]
        /\ files[local[j].fileName[1]] = local[j].script[1]

----------------------------------------------------------------------------
(* C5 *)

\* C5: for one generate call, the instant in the script's header comment,
\* the generated_at of the response and the epoch in the file name are one
\* and the same clock reading.
C5_OneTimestamp ==
    \A i \in Invocations :
        Generated(i) =>
            /\ Doc(i).file.generated_at = local[i].script[1].generatedAt
            /\ InstantOf(Doc(i).file.generated_at)
                  = Doc(i).file.name.epochMillis

----------------------------------------------------------------------------
(* C6 *)

\* C6: for the four scenario types and for an unrecognised one, for every
\* base concurrency and duration, the planner returns a non-empty sequence
\* of stages whose last stage targets exactly 0.
C6_EndsAtZero ==
    pout.planned =>
        /\ Len(pout.stages) > 0
        /\ pout.stages[Len(pout.stages)].target = 0

\* the plan of an unrecognised scenario type for a negative concurrency
C6_Witness ==
    /\ pout.planned
    /\ pin.scenarioType \notin {"ramping", "spike", "stress", "soak"}
    /\ pin.vus < 0
    /\ pout.stages[Len(pout.stages)].target = 0

----------------------------------------------------------------------------
(* C7 *)

\* C7: for every scenario type and every positive integer base concurrency,
\* the first stage targets more than zero, and zero is the target of no
\* stage but the last.
C7_StartsAboveZero ==
    pout.planned /\ pin.vus >= 1 =>
        /\ pout.stages[1].target > 0
        /\ \A k \in 1 .. Len(pout.stages) :
              pout.stages[k].target = 0 => k = Len(pout.stages)

----------------------------------------------------------------------------
(* C8 *)

\* the forwarder i cannot proceed: the gate reported unavailable and, for
\* k6_analyze, a testId but no result file was given
StoppedAtGate(i) ==
    /\ IsForwarder(i) /\ Done(i)
    /\ local[i].serverAvailable = Some(FALSE)
    /\ args[i].tool = "k6_analyze"
          => Truthy(args[i].testId) /\ ~Truthy(args[i].resultFile)

\* C8: a forwarder stopped by the gate returns an error whose hint tells
\* how to start the App Server.
C8_UnavailableHint ==
    \A i \in Invocations :
        StoppedAtGate(i) =>
            /\ ReturnedError(i)
            /\ "hint" \in DOMAIN Doc(i)
            /\ Doc(i).hint = StartHint

----------------------------------------------------------------------------
(* C9 *)

\* the App Server answered 404 to the request of i for its test handle
HandleNotFound(i) ==
    /\ args[i].tool \in {"k6_status", "k6_output", "k6_analyze"}
    /\ Truthy(args[i].testId)
    /\ \E k \in 1 .. Len(log[i]) :
          /\ log[i][k].dir = "response"
          /\ log[i][k].what \in {GetStatus, GetOutput, GetResults}
          /\ log[i][k].outcome.status = 404

\* C9: after a 404 for the test handle, k6_status, k6_output and k6_analyze
\* return an error whose hint tells how to discover valid test handles.
C9_NotFoundHint ==
    \A i \in Invocations :
        Done(i) /\ HandleNotFound(i) =>
            /\ ReturnedError(i)
            /\ "hint" \in DOMAIN Doc(i)
            /\ Doc(i).hint = NotFoundHint(args[i].testId[1])

----------------------------------------------------------------------------
(* C10 *)

NeitherGiven(i) ==
    /\ args[i].tool = "k6_analyze"
    /\ ~Truthy(args[i].testId) /\ ~Truthy(args[i].resultFile)

\* C10: k6_analyze with neither testId nor resultFile returns a structured
\* usage error, whether the App Server is available or not, and raises no
\* unhandled fault.
C10_UsageError ==
    \A i \in Invocations :
        NeitherGiven(i) =>
            /\ resp[i].state # "rejected"
            /\ pc[i] \in {"health", "done"}
            /\ Calls(i) = <<>>
            /\ Done(i) => /\ ReturnedError(i)
                          /\ Doc(i).message = <<UsageText>>

\* the usage error was returned once with the App Server available and once
\* with it unavailable
C10_Witness ==
    \E i, j \in Invocations :
        /\ NeitherGiven(i) /\ Done(i)
        /\ local[i].serverAvailable = Some(TRUE)
        /\ Doc(i).message = <<UsageText>>
        /\ NeitherGiven(j) /\ Done(j)
        /\ local[j].serverAvailable = Some(FALSE)
        /\ Doc(j).message = <<UsageText>>

----------------------------------------------------------------------------
(* C11 *)

\* C11: every tool, on success as well as on error, returns exactly one
\* content item of type text, and its text is a JSON document; k6_output
\* included.
C11_OneJsonText ==
    \A i \in Invocations :
        Done(i) /\ resp[i].state = "fulfilled" =>
            /\ ReturnedJson(i)
            /\ resp[i].value.content[1].type = "text"

----------------------------------------------------------------------------
(* C12 *)

\* what a response tells outside the preview of the script text: a field
\* beyond those of every successful generation, or a message other than
\* the one every successful generation carries
InformsPlaceholder(doc) ==
    \/ DOMAIN doc \ {"success", "message", "file", "configuration",
                     "preview"} # {}
    \/ doc.message # <<"K6 script generated and saved successfully">>

\* C12: the response of a successful k6_generate call for har or openapi
\* tells the caller, outside the script text, that the script is a
\* placeholder and no real test.
C12_PlaceholderTold ==
    \A i \in Invocations :
        Generated(i) /\ args[i].source \in {"har", "openapi"} =>
            InformsPlaceholder(Doc(i))

----------------------------------------------------------------------------
(* C13 *)

\* the script of invocation i has been rendered
Rendered(i) == IsGenerate(i) /\ IsDefined(local[i].script)

\* the think time a script sleeps for: the THINK_TIME of the basic and api
\* templates, the fixed sleep of the har and openapi templates
ThinkTimeOf(script) ==
    IF script.template \in {"basic", "api"} THEN script.thinkTime
    ELSE script.sleep

\* C13: for every option the caller left out, the rendered script embeds
\* the default: concurrency 10, think time 1, and the duration "2m" for
\* basic, "1m" for api, "5m" for har and openapi.
C13_Defaults ==
    \A i \in Invocations :
        Rendered(i) =>
            /\ ~IsDefined(args[i].options.vus) => local[i].script[1].vus = 10
            /\ ~IsDefined(args[i].options.thinkTime)
                  => ThinkTimeOf(local[i].script[1]) = 1
            /\ ~IsDefined(args[i].options.duration)
                  => /\ args[i].source = "basic"
                           => local[i].script[1].duration = "2m"
                     /\ args[i].source = "api"
                           => local[i].script[1].duration = "1m"
                     /\ args[i].source \in {"har", "openapi"}
                           => local[i].script[1].duration = "5m"

\* an api script generated without options: 10 virtual users for "1m"
C13_Witness ==
    \E i \in Invocations :
        /\ Generated(i) /\ args[i].source = "api"
        /\ args[i].options = NoOptions
        /\ local[i].script[1].vus = 10
        /\ local[i].script[1].duration = "1m"
        /\ local[i].script[1].thinkTime = 1
        /\ files[local[i].fileName[1]].duration = "1m"

----------------------------------------------------------------------------
(* C14 *)

\* C14: the configuration echoed by a successful k6_generate call is the
\* one the script was rendered with: the same vus, duration and think time,
\* and for the basic template the same scenario.
C14_EchoIsUsed ==
    \A i \in Invocations :
        Generated(i) =>
            /\ Doc(i).configuration.vus = local[i].script[1].vus
            /\ Doc(i).configuration.duration = local[i].script[1].duration
            /\ Doc(i).configuration.thinkTime
                  = ThinkTimeOf(local[i].script[1])
            /\ args[i].source = "basic"
                  => Doc(i).configuration.scenarios
                        = <<local[i].script[1].scenario>>

----------------------------------------------------------------------------
(* C15 *)

UnknownKind(i) == IsGenerate(i) /\ args[i].source \notin Sources

\* the generate call of i ended in a failure
GenerateFailed(i) ==
    IsGenerate(i) /\ Done(i) /\ (UnknownKind(i) \/ FsFailed(i))

\* the code of the file system error that ended invocation i
FailedCode(i) ==
    log[i][CHOOSE k \in 1 .. Len(log[i]) :
               log[i][k].dir = "fs" /\ log[i][k].result # "ok"].result

\* C15: a failed k6_generate call (unknown source kind, failed directory
\* creation, failed file write) returns a structured failure that carries
\* the message of the triggering error, the requested source kind and the
\* input the caller gave, and that reports no success.
C15_StructuredFailure ==
    \A i \in Invocations :
        GenerateFailed(i) =>
            /\ ReturnedError(i)
            /\ "success" \notin DOMAIN Doc(i)
            /\ Doc(i).source = args[i].source
            /\ IsDefined(args[i].input)
                  => /\ "input" \in DOMAIN Doc(i)
                     /\ Doc(i).input = args[i].input[1]
            /\ IF UnknownKind(i)
               THEN Doc(i).message = <<"Unknown source type: ", args[i].source>>
               ELSE Doc(i).message[1] = FailedCode(i)

\* a call with an input whose file write failed
C15_Witness ==
    \E i \in Invocations :
        /\ GenerateFailed(i) /\ IsDefined(args[i].input)
        /\ log[i] # <<>>
        /\ log[i][Len(log[i])] = Fs("writeFile", "EACCES")
        /\ Doc(i).message[1] = "EACCES"
        /\ Doc(i).input = args[i].input[1]
        /\ Doc(i).source = args[i].source

----------------------------------------------------------------------------
(* C16 *)

\* C16: after a k6_generate call that returned a failure, no file of the
\* output directory holds a part of a script only; and a call that failed
\* on its source kind or on the directory creation never called writeFile.
C16_AllOrNothing ==
    \A i \in Invocations :
        GenerateFailed(i) =>
            /\ \A n \in DOMAIN files : "truncated" \notin DOMAIN files[n]
            /\ UnknownKind(i) \/ log[i][Len(log[i])].what = "mkdir"
                  => ~Writing(i)

----------------------------------------------------------------------------
(* C17 *)

Min(a, b) == IF a <= b THEN a ELSE b

\* text p is a prefix of text t: the same chunks, the last one possibly cut
IsPrefix(p, t) ==
    /\ Len(p) <= Len(t)
    /\ \A k \in 1 .. Len(p) :
          /\ p[k].src = t[k].src /\ p[k].from = t[k].from
          /\ p[k].to <= t[k].to
          /\ p[k].to < t[k].to => k = Len(p)

\* C17: the preview of a successful k6_generate call is the first 500
\* characters of the script text (all of a shorter text) followed by the
\* ellipsis, while the file holds the complete script text.
C17_PreviewCutFileWhole ==
    \A i \in Invocations :
        Generated(i) =>
            /\ Doc(i).preview.of = local[i].script[1]
            /\ IsPrefix(Doc(i).preview.first, ScriptText(local[i].script[1]))
            /\ Length(Doc(i).preview.first)
                  = Min(500, Length(ScriptText(local[i].script[1])))
            /\ Doc(i).preview.then = "..."
            /\ files[local[i].fileName[1]] = local[i].script[1]

\* a script of more than 500 characters: the preview has 500 of them, the
\* file all
C17_Witness ==
    \E i \in Invocations :
        /\ Generated(i)
        /\ Length(ScriptText(local[i].script[1])) > 500
        /\ Length(Doc(i).preview.first) = 500
        /\ Doc(i).preview.first # ScriptText(local[i].script[1])
        /\ files[local[i].fileName[1]] = local[i].script[1]

----------------------------------------------------------------------------
(* C18 *)

\* k6_analyze was given a result file and its probe reported unavailable
FileWithoutService(i) ==
    /\ args[i].tool = "k6_analyze" /\ Truthy(args[i].resultFile)
    /\ local[i].serverAvailable = Some(FALSE)

\* C18: k6_analyze with a resultFile and an unavailable service sends no
\* request but the probe and, the file read, returns the file's metrics
\* with the issues, recommendations and summary computed from them locally;
\* with or without a testId.  If the file cannot be read it returns a
\* structured error.
C18_LocalFallback ==
    \A i \in Invocations :
        FileWithoutService(i) =>
            /\ Calls(i) = <<>>
            /\ Done(i) /\ ~FsFailed(i) =>
                  /\ ReturnedJson(i)
                  /\ "error" \notin DOMAIN Doc(i)
                  /\ {"metrics", "issues", "recommendations", "summary"}
                        \subseteq DOMAIN Doc(i)
                  /\ Doc(i).file = args[i].resultFile[1]
                  /\ Doc(i).metrics = parseMetricsFromOutput(local[i].output[1])
                  /\ Doc(i).summary
                        = performBasicAnalysis(Doc(i).metrics).summary
                  /\ Doc(i).issues
                        = performBasicAnalysis(Doc(i).metrics).issues
            /\ Done(i) /\ FsFailed(i) => ReturnedError(i)

\* the local analysis was returned to a call with a testId and a resultFile
\* and to a call with a resultFile only
C18_Witness ==
    \E i, j \in Invocations :
        /\ FileWithoutService(i) /\ Done(i) /\ Truthy(args[i].testId)
        /\ local[i].output = Some(FastReport)
        /\ Doc(i).summary.performance = "excellent"
        /\ FileWithoutService(j) /\ Done(j) /\ ~Truthy(args[j].testId)
        /\ local[j].output = Some(SlowReport)
        /\ Len(Doc(j).issues) = 3

----------------------------------------------------------------------------
(* C19 *)

\* the chunks of a text that come from the string named src
ChunksOf(text, src) == SelectSeq(text, LAMBDA c : c.src = src)

\* k6_output returned the formatted text of a body with a standard output
OutputReturned(i) ==
    /\ args[i].tool = "k6_output" /\ Done(i)
    /\ IsDefined(local[i].data) /\ NonEmpty(local[i].data[1].output)

\* C19: the k6_output text includes a standard output of at most 10,000
\* characters unchanged and without a truncation marker; of a longer one it
\* includes exactly the last 10,000 characters, right after the marker.
C19_TailSurvives ==
    \A i \in Invocations :
        OutputReturned(i) =>
            IF local[i].data[1].output[1].length <= 10000
            THEN /\ ChunksOf(Doc(i), "output")
                       = <<Chunk("output", 0,
                                 local[i].data[1].output[1].length)>>
                 /\ \A k \in 1 .. Len(Doc(i)) : Doc(i)[k] # TruncationMarker
            ELSE /\ ChunksOf(Doc(i), "output")
                       = <<Chunk("output",
                                 local[i].data[1].output[1].length - 10000,
                                 local[i].data[1].output[1].length)>>
                 /\ \E k \in 1 .. Len(Doc(i)) - 1 :
                       /\ Doc(i)[k] = TruncationMarker
                       /\ Doc(i)[k + 1].src = "output"

\* an output of 25,000 characters: the text holds characters 15,000 to
\* 25,000 of it, 10,000 in all
C19_Witness ==
    \E i \in Invocations :
        /\ OutputReturned(i)
        /\ local[i].data[1].output[1].length = 25000
        /\ ChunksOf(Doc(i), "output") = <<Chunk("output", 15000, 25000)>>
        /\ Length(ChunksOf(Doc(i), "output")) = 10000

----------------------------------------------------------------------------
(* C20 *)

\* the number n of the report (450, 0.05) in the hundredths the metrics hold
Hundredths(units, hundredths) == units * 100 + hundredths

\* C20: for every metrics record the summary bands follow the fixed cutoffs:
\* performance excellent below 500, good below 1000, fair below 2000, else
\* poor; reliability excellent below 0.1, good below 1, fair below 5, else
\* poor; throughput high above 100, medium above 50, else low; a metric
\* that is missing or not a number gets the lowest band.
C20_Bands ==
    pout.analysed =>
        /\ pout.analysis.summary.performance =
              (IF ~IsNumber(pin.p95ResponseTime) THEN "poor"
               ELSE IF pin.p95ResponseTime[1] < Hundredths(500, 0)
                    THEN "excellent"
               ELSE IF pin.p95ResponseTime[1] < Hundredths(1000, 0)
                    THEN "good"
               ELSE IF pin.p95ResponseTime[1] < Hundredths(2000, 0)
                    THEN "fair"
               ELSE "poor")
        /\ pout.analysis.summary.reliability =
              (IF ~IsNumber(pin.errorRate) THEN "poor"
               ELSE IF pin.errorRate[1] < Hundredths(0, 10) THEN "excellent"
               ELSE IF pin.errorRate[1] < Hundredths(1, 0) THEN "good"
               ELSE IF pin.errorRate[1] < Hundredths(5, 0) THEN "fair"
               ELSE "poor")
        /\ pout.analysis.summary.throughput =
              (IF ~IsNumber(pin.requestsPerSecond) THEN "low"
               ELSE IF pin.requestsPerSecond[1] > Hundredths(100, 0)
                    THEN "high"
               ELSE IF pin.requestsPerSecond[1] > Hundredths(50, 0)
                    THEN "medium"
               ELSE "low")

\* p95 = 450 and error rate = 0.05, no request rate in the report:
\* excellent, excellent, low
C20_Witness ==
    /\ pout.analysed
    /\ pin.p95ResponseTime = Some(Hundredths(450, 0))
    /\ pin.errorRate = Some(Hundredths(0, 5))
    /\ pin.requestsPerSecond = Undefined
    /\ pout.analysis.summary
          = [performance |-> "excellent", reliability |-> "excellent",
             throughput |-> "low"]

----------------------------------------------------------------------------
(* C21 *)

\* the targets of a plan, stage by stage
Targets(stages) == [k \in 1 .. Len(stages) |-> stages[k].target]

\* C21: for every base concurrency v the spike plan has exactly seven stages
\* whose targets are v, v, 3v, 3v, v, v, 0, and the basic script carries the
\* request timestamp exactly once, right after the opening of its header
\* comment.
C21_SpikeShape ==
    pout.planned =>
        /\ pin.scenarioType = "spike" =>
              /\ Len(pout.stages) = 7
              /\ Targets(pout.stages) =
                    << pin.vus, pin.vus, 3 * pin.vus, 3 * pin.vus,
                       pin.vus, pin.vus, 0 >>
              /\ pout.script.stages = pout.stages
        /\ Len(ChunksOf(BasicText(pout.script), "timestamp")) = 1
        /\ BasicText(pout.script)[1] = Lit("basic:1", 45)
        /\ BasicText(pout.script)[2].src = "timestamp"

\* the spike plan of the base concurrency 20: it peaks at 60 and comes back
\* to 20
C21_Witness ==
    /\ pout.planned /\ pin.scenarioType = "spike" /\ pin.vus = 20
    /\ pout.script.stages[3].target = 60
    /\ pout.script.stages[5].target = 20
    /\ pout.script.generatedAt = toISOString(clock)

----------------------------------------------------------------------------
(* C22 *)

\* the first six targets of a plan never fall
NeverFalls(stages) ==
    \A k \in 1 .. 5 : stages[k + 1].target >= stages[k].target

\* C22 as stated: for every base concurrency the planner accepts, the first
\* six targets of the stress plan are v, v, 2v, 2v, 3v, 3v, none lower than
\* the one before, and the seventh is zero.
C22_MonotonicRamp ==
    pout.planned /\ pin.scenarioType = "stress" =>
        /\ Targets(pout.stages) =
              << pin.vus, pin.vus, 2 * pin.vus, 2 * pin.vus,
                 3 * pin.vus, 3 * pin.vus, 0 >>
        /\ NeverFalls(pout.stages)

\* C22, amended: the targets of the stress plan are v, v, 2v, 2v, 3v, 3v, 0
\* for every base concurrency; they never fall over the first six stages
\* when v is zero or more, and they do fall when v is negative, which the
\* planner accepts as it accepts any number.
C22_MonotonicFromZero ==
    pout.planned /\ pin.scenarioType = "stress" =>
        /\ Targets(pout.stages) =
              << pin.vus, pin.vus, 2 * pin.vus, 2 * pin.vus,
                 3 * pin.vus, 3 * pin.vus, 0 >>
        /\ pin.vus >= 0 => NeverFalls(pout.stages)
        /\ pin.vus < 0 => ~NeverFalls(pout.stages)

\* a stress plan that climbs: its sixth target is above its first
C22_Witness ==
    /\ pout.planned /\ pin.scenarioType = "stress" /\ pin.vus > 0
    /\ pout.stages[6].target > pout.stages[1].target
    /\ pout.stages[7].target = 0

----------------------------------------------------------------------------
(* C23 *)

\* the plan q is the plan p but for the duration d in its stage k
SameButHold(p, q, k, d) ==
    /\ Len(q) = Len(p)
    /\ \A j \in 1 .. Len(p) :
          q[j] = IF j = k THEN Stage(d, p[j].target) ELSE p[j]

\* C23: the duration given is the duration of the second stage of the soak
\* plan and of the third stage of the ramping plan, as given, and is found
\* nowhere else: another duration changes that stage of those plans only,
\* and changes nothing in the spike and stress plans.
C23_DurationOnlyHolds ==
    pout.planned =>
        \A d \in DurationInputs :
            LET other == generateStagesConfig(pin.scenarioType, pin.vus, d)
            IN  CASE pin.scenarioType \in {"spike", "stress"} ->
                       other = pout.stages
                  [] pin.scenarioType = "soak" ->
                       /\ pout.stages[2].duration = pin.duration
                       /\ SameButHold(pout.stages, other, 2, d)
                  [] OTHER ->
                       /\ pout.stages[3].duration = pin.duration
                       /\ SameButHold(pout.stages, other, 3, d)

\* a soak plan holding for the hour that was asked
C23_Witness ==
    /\ pout.planned /\ pin.scenarioType = "soak" /\ pin.duration = "1h"
    /\ pout.stages[2] = Stage("1h", pin.vus)
    /\ pout.stages[1].duration = "2m" /\ pout.stages[3].duration = "2m"

----------------------------------------------------------------------------
(* C24 *)

KnownScenarios == {"ramping", "spike", "stress", "soak"}

\* the ramping plan, written out
RampingPlan(vus, duration) ==
    << Stage("30s", FloorHalf(vus)), Stage("30s", vus),
       Stage(duration, vus), Stage("30s", 0) >>

\* C24: a basic script asked with a scenario type that is none of ramping,
\* spike, stress and soak carries exactly the ramping plan of its
\* concurrency and duration, and the call succeeds unless writing the file
\* fails.
C24_UnknownIsRamping ==
    \A i \in Invocations :
        /\ Rendered(i) /\ args[i].source = "basic"
        /\ ScenarioType(args[i].options) \notin KnownScenarios
        => LET script == local[i].script[1]
           IN  /\ script.stages = RampingPlan(script.vus, script.duration)
               /\ script.stages = generateStagesConfig("ramping", script.vus,
                                                       script.duration)
               /\ Done(i) /\ ~FsFailed(i) => Generated(i)

\* a basic script of an unknown scenario type, generated and saved with the
\* four stages of the ramping plan
C24_Witness ==
    \E i \in Invocations :
        /\ Generated(i) /\ args[i].source = "basic"
        /\ args[i].options.scenarios = Some(<<"bogus">>)
        /\ local[i].script[1].scenario = "bogus"
        /\ Len(local[i].script[1].stages) = 4
        /\ local[i].script[1].stages[4].target = 0

----------------------------------------------------------------------------
(* C26 *)

\* C26: a default stands in only for an option that was left out: every
\* vus, duration and thinkTime that was given, zero included, is the one the
\* template is rendered with (thinkTime for the templates that take one).
C26_GivenReachesTemplate ==
    \A i \in Invocations :
        Rendered(i) =>
            LET options == args[i].options
                script == local[i].script[1]
            IN  /\ IsDefined(options.vus) => script.vus = options.vus[1]
                /\ IsDefined(options.duration)
                      => script.duration = options.duration[1]
                /\ IsDefined(options.thinkTime)
                   /\ args[i].source \in {"basic", "api"}
                      => script.thinkTime = options.thinkTime[1]

----------------------------------------------------------------------------
(* C27 *)

\* k6_analyze of a test id, past a probe that found the service available
AnalyzeById(i) ==
    /\ args[i].tool = "k6_analyze" /\ Truthy(args[i].testId)
    /\ Probed(i) /\ Healthy(log[i][2].outcome)

\* the places of the log of i that hold the request x
RequestsOf(i, x) == {k \in 1 .. Len(log[i]) : log[i][k] = Req(x)}

\* the places of the log of i that hold an answer to the request x
AnswersOf(i, x) ==
    {k \in 1 .. Len(log[i]) :
        log[i][k].dir = "response" /\ log[i][k].what = x}

\* the analyze request of i, if any, comes after a results request and after
\* its answer, which is a 2xx other than 202; after any other answer to the
\* results request there is no analyze request
ResultsBeforeAnalyze(i) ==
    /\ \A k \in RequestsOf(i, PostAnalyze) :
          /\ \E j \in RequestsOf(i, GetResults) : j < k
          /\ \E j \in AnswersOf(i, GetResults) :
                /\ j < k
                /\ log[i][j].outcome.status \in 200 .. 299
                /\ log[i][j].outcome.status # 202
    /\ \A j \in AnswersOf(i, GetResults) :
          log[i][j].outcome.status \notin (200 .. 299) \ {202}
             => RequestsOf(i, PostAnalyze) = {}

\* i returned the document that reports its test as running
ReportsRunning(i) ==
    /\ Done(i) /\ ReturnedJson(i)
    /\ {"testId", "status"} \subseteq DOMAIN Doc(i)
    /\ Doc(i).testId = args[i].testId[1]
    /\ Doc(i).status = "running"

\* C27 as stated: in k6_analyze of a test id with the service available, the
\* results request precedes the analyze request, which is sent only after a
\* 2xx answer other than 202; on a 202 the tool reports the test as running
\* and sends no analyze request, and on a failed results request it sends
\* none.
C27_RunningOnEvery202 ==
    \A i \in Invocations :
        AnalyzeById(i) =>
            /\ ResultsBeforeAnalyze(i)
            /\ \A j \in AnswersOf(i, GetResults) :
                  log[i][j].outcome.status = 202 => ReportsRunning(i)

\* C27, amended: the order of the two requests is as stated; on a 202 the
\* tool sends no analyze request, and it reports the test as running when
\* the 202 has a body other than the JSON null; a 202 whose body is null ends
\* the call as a failure to analyze.
C27_ResultsThenAnalyze ==
    \A i \in Invocations :
        AnalyzeById(i) =>
            /\ ResultsBeforeAnalyze(i)
            /\ \A j \in AnswersOf(i, GetResults) :
                  log[i][j].outcome.status = 202 =>
                      IF log[i][j].outcome.body # "null"
                      THEN ReportsRunning(i)
                      ELSE Done(i) /\ ~ReportsRunning(i)
                           /\ resp[i] = handleAnalyzeCatch(TypeError)

\* one analysis that went through both requests in order, beside one that
\* stopped at a 202 and reported its test as running
C27_Witness ==
    \E i, j \in Invocations :
        /\ AnalyzeById(i) /\ Done(i)
        /\ Calls(i) = <<GetResults, PostAnalyze>>
        /\ AnalyzeById(j) /\ ReportsRunning(j)
        /\ Calls(j) = <<GetResults>>

----------------------------------------------------------------------------
(* The planner on its own *)

NoPlan == <<>>


PlanInit ==
    /\ pc = [i \in Invocations |-> "idle"]
    /\ args = [i \in Invocations |-> NoArgs]
    /\ local = [i \in Invocations |-> NoLocals]
    /\ resp = [i \in Invocations |-> Pending]
    /\ log = [i \in Invocations |-> <<>>]
    /\ clock = 0
    /\ files = NoFiles
    \* base concurrencies: negative, zero, small, and the 20 of the
    \* documented example
    /\ pin \in [scenarioType : ScenarioInputs,
                vus : (-1 .. MaxVus) \cup {20},
                duration : DurationInputs]
    /\ pout = [planned |-> FALSE, stages |-> NoPlan, script |-> << >>]

\* one evaluation of the planner on the chosen input, and of the basic
\* template, its only caller, on the same input
PlanStages ==
    /\ ~pout.planned
    /\ pout' = [planned |-> TRUE,
                stages |-> generateStagesConfig(pin.scenarioType, pin.vus,
                                                pin.duration),
                script |-> generateBasicScript(
                              [baseUrl |-> DefaultBaseUrl,
                               vus |-> pin.vus,
                               duration |-> pin.duration,
                               thinkTime |-> 1,
                               scenarioType |-> pin.scenarioType,
                               timestamp |-> toISOString(clock)])]
    /\ UNCHANGED <<pc, args, local, resp, log, clock, files, pin>>

PlanNext == PlanStages

SpecPlan == PlanInit /\ [][PlanNext]_vars

----------------------------------------------------------------------------
(* The fallback classifier on its own *)

\* the metrics records tried: each metric missing, not a number, and on
\* either side of each cutoff (in hundredths)
MetricsInputs ==
    {[NoMetrics EXCEPT !.p95ResponseTime = p, !.errorRate = e,
                       !.requestsPerSecond = r, !.avgConnectTime = c] :
        p \in {Undefined, NaN} \cup
              {Some(x) : x \in {0, 45000, 49999, 50000, 99999, 100000,
                                100001, 199999, 200000, 500000}},
        e \in {Undefined, NaN} \cup
              {Some(x) : x \in {0, 5, 9, 10, 99, 100, 101, 499, 500, 700}},
        r \in {Undefined, NaN} \cup
              {Some(x) : x \in {0, 5000, 5001, 10000, 10001}},
        c \in {Undefined, Some(10000), Some(10001)}}

NoAnalysis == <<>>

AnalysisInit ==
    /\ pc = [i \in Invocations |-> "idle"]
    /\ args = [i \in Invocations |-> NoArgs]
    /\ local = [i \in Invocations |-> NoLocals]
    /\ resp = [i \in Invocations |-> Pending]
    /\ log = [i \in Invocations |-> <<>>]
    /\ clock = 0
    /\ files = NoFiles
    /\ pin \in MetricsInputs
    /\ pout = [analysed |-> FALSE, analysis |-> NoAnalysis]

\* one evaluation of performBasicAnalysis on the chosen metrics
Analyse ==
    /\ ~pout.analysed
    /\ pout' = [analysed |-> TRUE, analysis |-> performBasicAnalysis(pin)]
    /\ UNCHANGED <<pc, args, local, resp, log, clock, files, pin>>

AnalysisNext == Analyse

SpecAnalysis == AnalysisInit /\ [][AnalysisNext]_vars

----------------------------------------------------------------------------
(* One k6_generate call on its own, over the wide options and inputs *)

Caller == "i1"

GenerateWide == GenerateStartWith(Caller, WideGenerateArgs)

GenNext ==
    \/ Tick
    \/ GenerateWide
    \/ GenerateRendered(Caller)
    \/ GenerateMkdirDone(Caller)
    \/ GenerateWriteDone(Caller)

SpecGen == Init /\ [][GenNext]_vars

----------------------------------------------------------------------------
(* Two invocations, the awaited operations of the first always completing *)

\* the steps of a forwarder in the invocation i: its start and the
\* continuation after each of its awaits (the probe, the calls to the
\* Execution Service, the reading of the result file)
ForwarderStep(i) ==
    \/ ForwarderStart(i)
    \/ RunProbed(i)
    \/ RunPosted(i)
    \/ ListProbed(i)
    \/ ListFetched(i)
    \/ StatusProbed(i)
    \/ StatusFetched(i)
    \/ OutputProbed(i)
    \/ OutputFetched(i)
    \/ AnalyzeProbed(i)
    \/ AnalyzeResultsFetched(i)
    \/ AnalyzeFileRead(i)
    \/ AnalyzePosted(i)

LiveNext ==
    \E i \in Invocations :
        \/ GenerateStart(i)
        \/ GenerateRendered(i)
        \/ GenerateMkdirDone(i)
        \/ GenerateWriteDone(i)
        \/ ForwarderStep(i)

\* every await of a forwarder in the first invocation settles and its
\* continuation runs; nothing is assumed of the second invocation, whose
\* calls may stay unanswered forever
SpecLive == Init /\ [][LiveNext]_vars /\ WF_vars(ForwarderStep(Caller))

----------------------------------------------------------------------------
(* C25 *)

\* i waits for the answer to a call it sent to the Execution Service
InCall(i) ==
    /\ IsForwarder(i) /\ ~Done(i)
    /\ Calls(i) # <<>>
    /\ log[i][Len(log[i])].dir = "request"

\* C25: a forwarder invocation whose own probe, calls and file reading
\* complete returns its response, whatever the other invocation does and
\* even if the other's call is never answered; an invocation that has not
\* returned, such as one whose call hangs, has a pending response and
\* nothing else.
C25_RunsToCompletion ==
    /\ (IsForwarder(Caller) /\ ~Done(Caller)) ~> Done(Caller)
    /\ [](\A i \in Invocations : ~Done(i) => resp[i] = Pending)

\* the first invocation has returned while the call of the second, sent
\* before the first one's own call, is still unanswered
C25_Witness ==
    /\ Done(Caller) /\ IsForwarder(Caller) /\ Calls(Caller) # <<>>
    /\ resp[Caller].state = "fulfilled"
    /\ \E j \in Invocations \ {Caller} : InCall(j) /\ resp[j] = Pending

====
